---- MODULE Spec2Model ----
(***************************************************************************)
(* Verification model of the SocialMediaAggressor repository.              *)
(*                                                                         *)
(*   Spec       fetchAllFeeds of src/main.go: six source goroutines, the   *)
(*              wait group, the map mutex and the sync.Map result cache,   *)
(*              driven by consecutive searches.                            *)
(*                                                                         *)
(* A FeedResult is reduced to the two fields the dispatcher, the cache and *)
(* the merge look at: Source and PublishedTime.  PublishedTime is a        *)
(* natural number; 0 is the zero time.Time that time.Parse returns with an *)
(* error (the "unknown" timestamp), which is before every parsed time.     *)
(***************************************************************************)
EXTENDS Integers, Sequences, FiniteSets, TLC

VARIABLES
    \* ---- fetchAllFeeds (src/main.go) ----
    keyword,        \* argument of the fetchAllFeeds call in progress
    pcMain,         \* position of the fetchAllFeeds goroutine
    nextSrc,        \* index in Sources of the next goroutine to start
    results,        \* the map[string][]FeedResult of the call
    wg,             \* counter of the sync.WaitGroup
    mu,             \* holder of the sync.Mutex (a source, or Free)
    pc,             \* position of each source goroutine
    unitResult,     \* the local xxxResults of each source goroutine
    cache,          \* the package-level sync.Map
    failed,         \* history: sources whose adapter returned nil on an error in this call
    invokedNow,     \* history: sources whose adapter was invoked in this call
    invokedBefore   \* history: <<source, keyword>> whose adapter was invoked in an earlier call

aggVars == <<keyword, pcMain, nextSrc, results, wg, mu, pc, unitResult,
             cache, failed, invokedNow, invokedBefore>>

VARIABLES
    \* ---- handleCrawl (src/server/crawler_server.go) ----
    hPc,            \* position of the handler goroutine
    hMethod,        \* r.Method of the request
    hBodyOk,        \* whether json.Decode of the request body succeeds
    platform,       \* which crawl handler passed its crawlFunc
    ctxState,       \* the context.WithTimeout context: none, armed, expired, canceled
    resultsChan,    \* the buffered channel of capacity 1
    hResults,       \* the handler's local var results []string
    crawlPc,        \* position of the goroutine that runs crawlFunc
    crawlTarget,    \* what the upstream page holds: the output of a crawl that runs to its end
    collected,      \* the local results of crawlFunc: what it has appended so far
    respStatus,     \* status code of the response (0: nothing written yet)
    respBody,       \* kind of body written: none, error (http.Error) or json
    respResults,    \* the Results field of the JSON body
    crawlReturned,  \* history: the value crawlFunc returned, once crawlPc is exited
    crawlFailed,    \* history: crawlFunc returned from one of its error branches
    branch,         \* history: the case the select took
    expiredAtSelect,    \* history: whether ctx.Done() was closed when the select chose
    collectedAtExpiry,  \* history: what crawlFunc had appended when the timeout case was taken
    respWrites          \* history: the bodies written to the response of the request, in order

crawlVars == <<hPc, hMethod, hBodyOk, platform, ctxState, resultsChan, hResults,
               crawlPc, crawlTarget, collected, respStatus, respBody, respResults,
               crawlReturned, crawlFailed, branch, expiredAtSelect, collectedAtExpiry,
               respWrites>>

VARIABLES
    \* ---- concurrent calls of fetchNewsFeedsWithCache / fetchYouTubeFeedsWithCache ----
    callPc,         \* position of each caller
    callSrc,        \* which wrapper the caller is in: "NewsAPI" or "YouTube"
    callKw,         \* the keyword argument of the call
    callRes,        \* the local results of the wrapper
    callRet,        \* the slice the call returned
    invocations,    \* history: adapter invocations made by the caller's current call
    callFailed,     \* history: the adapter of the call returned nil on an error, not stored yet
    alone,          \* history: no other call for the same key was in flight during the call
    pred,           \* history: what the call that returned last for the key before this one began left,
                    \* kept while no other call for the key overlaps this one
    afterFailStore, \* history: the call began after a failed adapter's nil was stored under its key
    prev,           \* history: per key, the call that returned last
    adapterCalls,   \* history: per key, the number of adapter invocations
    failStored      \* history: keys under which the nil of a failed adapter was stored

callVars == <<callPc, callSrc, callKw, callRes, callRet, invocations, callFailed,
              alone, pred, afterFailStore, prev, adapterCalls, failStored>>

VARIABLES
    \* ---- fetchCombinedNewsFeeds (src/server/crawler_server.go) ----
    mPc,            \* position of the fetchCombinedNewsFeeds goroutine
    mNext,          \* index in MergeSources of the next goroutine to start
    allResults,     \* var allResults []FeedResult
    mWg,            \* counter of its sync.WaitGroup
    mMu,            \* holder of its sync.Mutex
    mUnitPc,        \* position of the RSS and the News API goroutine
    mUnitRes,       \* rssResults and newsAPIResults
    appended,       \* history: allResults as it was when wg.Wait() returned
    combined        \* the slice fetchCombinedNewsFeeds returned

mergeVars == <<mPc, mNext, allResults, mWg, mMu, mUnitPc, mUnitRes, appended, combined>>

VARIABLES
    \* ---- the loop of an adapter that turns upstream items into FeedResults ----
    convPc,         \* position of the adapter: idle, loop, returned
    convAdapter,    \* which adapter runs
    convRaw,        \* the published strings of the upstream items, in upstream order
    convOut,        \* var results []FeedResult of the adapter
    clock           \* what time.Now() returned last

convVars == <<convPc, convAdapter, convRaw, convOut, clock>>

VARIABLES
    \* ---- the keyword counter: indexHandler and searchHandler (src/main.go) ----
    srvPc,                  \* the process: boot (main before r.Run), serving, crashed
    searchedKeywords,       \* the package-level map[string]int
    searchedKeywordsLock,   \* holder of the sync.Mutex (a request, or Free)
    kwFile,                 \* searched_keywords.json: whether it exists, is whole, and its mapping
    reqPc,                  \* position of each request goroutine
    reqKind,                \* the handler the request runs: index or search
    reqKeyword,             \* c.PostForm("keyword") of a search request
    reqCount,               \* the count the ++ of the request has read and, once written, the count it wrote
    reqSaved,               \* whether saveSearchedKeywords of the request wrote the file
    reqIter,                \* the map as it was when the range loop of the request began
    reqSorted,              \* the slice sortKeywordsByCount returned to the request
    sortedFrom,             \* history: the mapping the range loop of the request copied
    startup,                \* history: the mapping loadSearchedKeywords loaded
    increments,             \* history: per keyword, the number of ++ performed
    searches                \* history: number of search requests begun

kwVars == <<srvPc, searchedKeywords, searchedKeywordsLock, kwFile, reqPc, reqKind,
            reqKeyword, reqCount, reqSaved, reqIter, reqSorted, sortedFrom, startup,
            increments, searches>>

VARIABLES
    \* ---- sortKeywordsByCount on a counter map built by increments ----
    topMap,         \* the counter map handed to sortKeywordsByCount
    topOut,         \* what the last call returned
    topPrev,        \* what the call before it returned, for the same map
    topCalls        \* number of calls made since the map last changed

topVars == <<topMap, topOut, topPrev, topCalls>>

VARIABLES
    \* ---- GET /news: newsPaginationHandler and fetchNewsFeedsWithPagination ----
    pagePc,         \* position of the handler: idle, calling (in http.Get), responded
    pageKw,         \* c.Query("keyword")
    pageNum,        \* pageNum of strconv.Atoi(page)
    pageGets,       \* history: the requests the call has sent to the News API
    pageResp,       \* history: what the News API answered
    pageOut         \* the results the handler wrote

pageVars == <<pagePc, pageKw, pageNum, pageGets, pageResp, pageOut>>

VARIABLES
    \* ---- fetchRSSFeeds (src/main.go, src/server/crawler_server.go) ----
    rssPc,          \* position of fetchRSSFeeds: idle, loop, returned
    rssKeyword,     \* the keyword argument, a string as the sequence of its letters
    rssFeeds,       \* history: what fp.ParseURL answered for each source so far
    rssOut          \* var results []FeedResult

rssVars == <<rssPc, rssKeyword, rssFeeds, rssOut>>

VARIABLES
    \* ---- a source unit of the client and the crawl server it posts to ----
    wNow,           \* seconds since the last POST of the client
    wPlatform,      \* the platform of the client's current source unit
    wDuration,      \* seconds the crawlFunc of the last POST takes
    wDeadline,      \* seconds of context.WithTimeout in the handleCrawl that serves it
    wClientPc,      \* the source unit: idle, waiting (in client.Post), got, done
    wClientRes,     \* what the source unit has to return
    wHit,           \* whether the unit was answered from the client's cache
    wCache,         \* the sync.Map of the client
    wCrawlPc,       \* the server goroutine that runs crawlFunc: none, running, exited
    wChan,          \* resultsChan of the handler
    wHandlerPc,     \* the server handler: none, select, returned
    wStatus,        \* the status the handler answered with (0: none yet)
    wRespResults,   \* the results of its JSON body
    wSlowStored     \* history: a unit whose crawl outlasted the client's wait stored its result

waitVars == <<wNow, wPlatform, wDuration, wDeadline, wClientPc, wClientRes, wHit, wCache,
              wCrawlPc, wChan, wHandlerPc, wStatus, wRespResults, wSlowStored>>

aggVarsButCache == <<keyword, pcMain, nextSrc, results, wg, mu, pc, unitResult,
                     failed, invokedNow, invokedBefore>>

otherThanAgg == <<crawlVars, callVars, mergeVars, convVars, kwVars, topVars, pageVars, rssVars, waitVars>>

otherThanCrawl == <<aggVars, callVars, mergeVars, convVars, kwVars, topVars, pageVars, rssVars, waitVars>>

otherThanCalls == <<aggVarsButCache, crawlVars, mergeVars, convVars, kwVars, topVars, pageVars, rssVars, waitVars>>

otherThanMerge == <<aggVars, crawlVars, callVars, convVars, kwVars, topVars, pageVars, rssVars, waitVars>>

otherThanConv == <<aggVars, crawlVars, callVars, mergeVars, kwVars, topVars, pageVars, rssVars, waitVars>>

otherThanKw == <<aggVars, crawlVars, callVars, mergeVars, convVars, topVars, pageVars, rssVars, waitVars>>

otherThanTop == <<aggVars, crawlVars, callVars, mergeVars, convVars, kwVars, pageVars, rssVars, waitVars>>

otherThanPage == <<aggVars, crawlVars, callVars, mergeVars, convVars, kwVars, topVars, rssVars, waitVars>>

otherThanRss == <<aggVars, crawlVars, callVars, mergeVars, convVars, kwVars, topVars, pageVars, waitVars>>

otherThanWait == <<aggVars, crawlVars, callVars, mergeVars, convVars, kwVars, topVars, pageVars, rssVars>>

vars == <<aggVars, crawlVars, callVars, mergeVars, convVars, kwVars, topVars, pageVars, rssVars, waitVars>>

-----------------------------------------------------------------------------
(* FeedResult, time.Time.After and sort.Slice *)

FeedResult(src, t) == [Source |-> src, PublishedTime |-> t]

\* time.Time.After on PublishedTime, the less function handed to sort.Slice
After(a, b) == a.PublishedTime > b.PublishedTime

Swap(s, i, j) == [s EXCEPT ![i] = s[j], ![j] = s[i]]

\* SiftDown with an if in place of the loop: one swap at most
SiftDownOnce(s, j) ==
    IF j > 1 /\ After(s[j], s[j - 1]) THEN Swap(s, j, j - 1) ELSE s

\* inner loop of insertionSortLessFunc: for j := i; j > a && less(j, j-1); j--
RECURSIVE SiftDown(_, _)
SiftDown(s, j) ==
    IF j > 1 /\ After(s[j], s[j - 1])
    THEN SiftDown(Swap(s, j, j - 1), j - 1)
    ELSE s

RECURSIVE InsertionSortFrom(_, _)
InsertionSortFrom(s, i) ==
    IF i > Len(s) THEN s ELSE InsertionSortFrom(SiftDown(s, i), i + 1)

\* sort.Slice(results, func(i, j) bool { return results[i].PublishedTime.After(...) })
\* The library sorts a slice of at most 12 elements by insertion sort.
SortSlice(s) == InsertionSortFrom(s, 2)

Nil == << >>

-----------------------------------------------------------------------------
(* The sources of fetchAllFeeds and their adapters *)

Sources == <<"NewsAPI", "RSS", "Twitter", "YouTube", "Instagram", "Facebook">>

SourceSet == {Sources[i] : i \in 1..Len(Sources)}

Keywords == {"go"}

Free == "free"

\* fetchNewsFeedsWithCache and fetchYouTubeFeedsWithCache wrap their adapter;
\* the other four goroutines call their adapter directly
Cached(src) == src \in {"NewsAPI", "YouTube"}

\* "news:" + keyword and "youtube:" + keyword: the prefixes differ in their
\* first byte, so a key is the pair of prefix and keyword
CacheKey(src, kw) == <<IF src = "NewsAPI" THEN "news" ELSE "youtube", kw>>

\* What the upstream of a source may answer: an error (transport error, non-200
\* status, undecodable body; written as the list <<-1>>, which is no list of
\* times) or a list of published times in upstream order
UpstreamError == <<-1>>

Upstream(src) ==
    CASE src = "NewsAPI"   -> {UpstreamError, << >>, <<1, 2>>}
      [] src = "RSS"       -> {<< >>, <<1, 2>>}
      [] src = "Twitter"   -> {<< >>, <<2>>}
      [] src = "YouTube"   -> {UpstreamError, <<2, 1>>}
      [] src = "Instagram" -> {<<3>>}
      [] src = "Facebook"  -> {<<3>>}

Items(src, times) == [i \in 1..Len(times) |-> FeedResult(src, times[i])]

\* fetchNewsFeeds: nil on an error, else the articles sorted most recent first
fetchNewsFeeds(resp) ==
    IF resp = UpstreamError THEN Nil ELSE SortSlice(Items("NewsAPI", resp))

\* fetchYouTubeFeeds: nil on an error, else the items in response order
fetchYouTubeFeeds(resp) ==
    IF resp = UpstreamError THEN Nil ELSE Items("YouTube", resp)

\* fetchRSSFeeds, fetchTwitterFeedsFromHandles: the matching items in feed order
\* (a feed or handle that fails is skipped); fetchInstagramFeeds and
\* fetchFacebookFeeds: one placeholder item
Adapter(src, resp) ==
    CASE src = "NewsAPI" -> fetchNewsFeeds(resp)
      [] src = "YouTube" -> fetchYouTubeFeeds(resp)
      [] OTHER           -> Items(src, resp)

-----------------------------------------------------------------------------
(* fetchAllFeeds *)

EmptyMap == << >>

MapPut(m, k, v) == [x \in DOMAIN m \cup {k} |-> IF x = k THEN v ELSE m[x]]

InitAgg ==
    /\ keyword = ""
    /\ pcMain = "idle"
    /\ nextSrc = 1
    /\ results = EmptyMap
    /\ wg = 0
    /\ mu = Free
    /\ pc = [s \in SourceSet |-> "none"]
    /\ unitResult = [s \in SourceSet |-> Nil]
    /\ cache = EmptyMap
    /\ failed = {}
    /\ invokedNow = {}
    /\ invokedBefore = {}

\* searchHandler calls fetchAllFeeds(keyword): results := make(map...), var wg, var mu
Search(kw) ==
    /\ pcMain \in {"idle", "returned"}
    /\ keyword' = kw
    /\ pcMain' = "spawn"
    /\ nextSrc' = 1
    /\ results' = EmptyMap
    /\ wg' = 0
    /\ mu' = Free
    /\ pc' = [s \in SourceSet |-> "none"]
    /\ unitResult' = [s \in SourceSet |-> Nil]
    /\ failed' = {}
    /\ invokedNow' = {}
    /\ invokedBefore' = invokedBefore \cup {<<s, keyword>> : s \in invokedNow}
    /\ UNCHANGED cache
    /\ UNCHANGED otherThanAgg

\* Spawn with the wg.Add(1) of the last goroutine left out
SpawnWithoutLastAdd ==
    /\ pcMain = "spawn"
    /\ nextSrc <= Len(Sources)
    /\ wg' = IF nextSrc = Len(Sources) THEN wg ELSE wg + 1
    /\ pc' = [pc EXCEPT ![Sources[nextSrc]] = "run"]
    /\ nextSrc' = nextSrc + 1
    /\ pcMain' = IF nextSrc = Len(Sources) THEN "wait" ELSE "spawn"
    /\ UNCHANGED <<keyword, results, mu, unitResult, cache, failed, invokedNow, invokedBefore>>
    /\ UNCHANGED otherThanAgg

\* wg.Add(1); go func() { ... }()
Spawn ==
    /\ pcMain = "spawn"
    /\ nextSrc <= Len(Sources)
    /\ wg' = wg + 1
    /\ pc' = [pc EXCEPT ![Sources[nextSrc]] = "run"]
    /\ nextSrc' = nextSrc + 1
    /\ pcMain' = IF nextSrc = Len(Sources) THEN "wait" ELSE "spawn"
    /\ UNCHANGED <<keyword, results, mu, unitResult, cache, failed, invokedNow, invokedBefore>>
    /\ UNCHANGED otherThanAgg

\* cache.Load(key) at the head of fetchNewsFeedsWithCache / fetchYouTubeFeedsWithCache:
\* a hit returns the cached slice, a miss goes on to the adapter
CacheLoad(s) ==
    /\ pc[s] = "run"
    /\ Cached(s)
    /\ IF CacheKey(s, keyword) \in DOMAIN cache
       THEN /\ unitResult' = [unitResult EXCEPT ![s] = cache[CacheKey(s, keyword)]]
            /\ pc' = [pc EXCEPT ![s] = "got"]
            /\ UNCHANGED invokedNow
       ELSE /\ pc' = [pc EXCEPT ![s] = "calling"]
            /\ invokedNow' = invokedNow \cup {s}
            /\ UNCHANGED unitResult
    /\ UNCHANGED <<keyword, pcMain, nextSrc, results, wg, mu, cache, failed, invokedBefore>>
    /\ UNCHANGED otherThanAgg

\* the goroutines of the uncached sources call their adapter first thing
AdapterCall(s) ==
    /\ pc[s] = "run"
    /\ ~Cached(s)
    /\ pc' = [pc EXCEPT ![s] = "calling"]
    /\ invokedNow' = invokedNow \cup {s}
    /\ UNCHANGED <<keyword, pcMain, nextSrc, results, wg, mu, unitResult, cache, failed, invokedBefore>>
    /\ UNCHANGED otherThanAgg

\* the adapter returns its slice (nil after an error) to the goroutine, or to
\* the cached wrapper that called it
AdapterReturn(s) ==
    /\ pc[s] = "calling"
    /\ \E resp \in Upstream(s) :
         /\ unitResult' = [unitResult EXCEPT ![s] = Adapter(s, resp)]
         /\ failed' = IF resp = UpstreamError THEN failed \cup {s} ELSE failed
    /\ pc' = [pc EXCEPT ![s] = IF Cached(s) THEN "store" ELSE "got"]
    /\ UNCHANGED <<keyword, pcMain, nextSrc, results, wg, mu, cache, invokedNow, invokedBefore>>
    /\ UNCHANGED otherThanAgg

\* cache.Store(key, results); return results
CacheStore(s) ==
    /\ pc[s] = "store"
    /\ cache' = MapPut(cache, CacheKey(s, keyword), unitResult[s])
    /\ pc' = [pc EXCEPT ![s] = "got"]
    /\ UNCHANGED <<keyword, pcMain, nextSrc, results, wg, mu, unitResult, failed, invokedNow, invokedBefore>>
    /\ UNCHANGED otherThanAgg

\* Lock that does not wait for the mutex to be free
LockNoWait(s) ==
    /\ pc[s] = "got"
    /\ mu' = s
    /\ pc' = [pc EXCEPT ![s] = "locked"]
    /\ UNCHANGED <<keyword, pcMain, nextSrc, results, wg, unitResult, cache, failed, invokedNow, invokedBefore>>
    /\ UNCHANGED otherThanAgg

\* mu.Lock()
Lock(s) ==
    /\ pc[s] = "got"
    /\ mu = Free
    /\ mu' = s
    /\ pc' = [pc EXCEPT ![s] = "locked"]
    /\ UNCHANGED <<keyword, pcMain, nextSrc, results, wg, unitResult, cache, failed, invokedNow, invokedBefore>>
    /\ UNCHANGED otherThanAgg

\* WriteResult where a goroutine whose adapter failed replaces the map by a
\* fresh one that holds its own entry only
WriteResultResetOnFailure(s) ==
    /\ pc[s] = "locked"
    /\ results' = IF s \in failed
                  THEN MapPut(EmptyMap, s, unitResult[s])
                  ELSE MapPut(results, s, unitResult[s])
    /\ mu' = Free
    /\ pc' = [pc EXCEPT ![s] = "written"]
    /\ UNCHANGED <<keyword, pcMain, nextSrc, wg, unitResult, cache, failed, invokedNow, invokedBefore>>
    /\ UNCHANGED otherThanAgg

\* results[label] = xxxResults; mu.Unlock()
WriteResult(s) ==
    /\ pc[s] = "locked"
    /\ results' = MapPut(results, s, unitResult[s])
    /\ mu' = Free
    /\ pc' = [pc EXCEPT ![s] = "written"]
    /\ UNCHANGED <<keyword, pcMain, nextSrc, wg, unitResult, cache, failed, invokedNow, invokedBefore>>
    /\ UNCHANGED otherThanAgg

\* Done of a goroutine that ends without wg.Done()
DoneWithoutSignal(s) ==
    /\ pc[s] = "written"
    /\ pc' = [pc EXCEPT ![s] = "done"]
    /\ UNCHANGED <<keyword, pcMain, nextSrc, results, wg, mu, unitResult, cache, failed, invokedNow, invokedBefore>>
    /\ UNCHANGED otherThanAgg

\* the deferred wg.Done()
Done(s) ==
    /\ pc[s] = "written"
    /\ wg' = wg - 1
    /\ pc' = [pc EXCEPT ![s] = "done"]
    /\ UNCHANGED <<keyword, pcMain, nextSrc, results, mu, unitResult, cache, failed, invokedNow, invokedBefore>>
    /\ UNCHANGED otherThanAgg

\* wg.Wait() returns when the counter is zero
Wait ==
    /\ pcMain = "wait"
    /\ wg = 0
    /\ pcMain' = "combine"
    /\ UNCHANGED <<keyword, nextSrc, results, wg, mu, pc, unitResult, cache, failed, invokedNow, invokedBefore>>
    /\ UNCHANGED otherThanAgg

MapGet(m, k) == IF k \in DOMAIN m THEN m[k] ELSE Nil

\* combinedNewsResults = results["NewsAPI"] ++ results["RSS"]; results["News"] = ...; return
Combine ==
    /\ pcMain = "combine"
    /\ results' = MapPut(results, "News", MapGet(results, "NewsAPI") \o MapGet(results, "RSS"))
    /\ pcMain' = "returned"
    /\ UNCHANGED <<keyword, nextSrc, wg, mu, pc, unitResult, cache, failed, invokedNow, invokedBefore>>
    /\ UNCHANGED otherThanAgg

-----------------------------------------------------------------------------
(* handleCrawl *)

Methods == {"POST", "OPTIONS", "GET"}

Platforms == {"facebook", "twitter", "youtube"}

MaxCrawlItems == 2

\* the result strings of a page: item i is the number i
CrawlTargets == {[i \in 1..n |-> i] : n \in 0..MaxCrawlItems}

None == "none"

StatusOK == 200
StatusBadRequest == 400
StatusMethodNotAllowed == 405
StatusGatewayTimeout == 504

\* what crawlFunc returns when its login, navigation, API call or parse fails:
\* facebookCrawlHandler returns a one-element slice with an error text,
\* twitterCrawlHandler and youtubeCrawlHandler return nil
CrawlFailure(pf) == IF pf = "facebook" THEN <<"Error">> ELSE Nil

InitCrawl ==
    /\ hPc = "idle"
    /\ hMethod = None
    /\ hBodyOk = FALSE
    /\ platform = None
    /\ ctxState = None
    /\ resultsChan = << >>
    /\ hResults = Nil
    /\ crawlPc = None
    /\ crawlTarget = << >>
    /\ collected = << >>
    /\ respStatus = 0
    /\ respBody = None
    /\ respResults = Nil
    /\ crawlReturned = Nil
    /\ crawlFailed = FALSE
    /\ branch = None
    /\ expiredAtSelect = FALSE
    /\ collectedAtExpiry = << >>
    /\ respWrites = << >>

\* CrawlRequest without the return after http.Error(..., StatusMethodNotAllowed)
CrawlRequestNoReturn(method, bodyOk, pf, target) ==
    /\ hPc \in {"idle", "returned"}
    /\ crawlPc \in {None, "exited"}
    /\ hMethod' = method
    /\ hBodyOk' = bodyOk
    /\ platform' = pf
    /\ crawlTarget' = target
    /\ collected' = << >>
    /\ resultsChan' = << >>
    /\ hResults' = Nil
    /\ respResults' = Nil
    /\ crawlReturned' = Nil
    /\ crawlFailed' = FALSE
    /\ branch' = None
    /\ expiredAtSelect' = FALSE
    /\ collectedAtExpiry' = << >>
    /\ respWrites' = IF method # "OPTIONS" /\ (method # "POST" \/ ~bodyOk) THEN <<"error">> ELSE << >>
    /\ IF method = "OPTIONS"
       THEN /\ respStatus' = StatusOK
            /\ respBody' = None
            /\ hPc' = "returned"
            /\ ctxState' = None
            /\ crawlPc' = None
       ELSE IF method # "POST" /\ ~bodyOk
       THEN /\ respStatus' = StatusMethodNotAllowed
            /\ respBody' = "error"
            /\ hPc' = "returned"
            /\ ctxState' = None
            /\ crawlPc' = None
       ELSE IF method # "POST"
       THEN /\ respStatus' = StatusMethodNotAllowed
            /\ respBody' = "error"
            /\ hPc' = "select"
            /\ ctxState' = "armed"
            /\ crawlPc' = "running"
       ELSE IF ~bodyOk
       THEN /\ respStatus' = StatusBadRequest
            /\ respBody' = "error"
            /\ hPc' = "returned"
            /\ ctxState' = None
            /\ crawlPc' = None
       ELSE /\ respStatus' = 0
            /\ respBody' = None
            /\ hPc' = "select"
            /\ ctxState' = "armed"
            /\ crawlPc' = "running"
    /\ UNCHANGED otherThanCrawl

\* handleCrawl up to the select: the CORS headers, the method checks, the
\* decoding of the body, context.WithTimeout, make(chan []string, 1) and
\* go func() { resultsChan <- crawlFunc(req) }()
CrawlRequest(method, bodyOk, pf, target) ==
    /\ hPc \in {"idle", "returned"}
    /\ crawlPc \in {None, "exited"}
    /\ hMethod' = method
    /\ hBodyOk' = bodyOk
    /\ platform' = pf
    /\ crawlTarget' = target
    /\ collected' = << >>
    /\ resultsChan' = << >>
    /\ hResults' = Nil
    /\ respResults' = Nil
    /\ crawlReturned' = Nil
    /\ crawlFailed' = FALSE
    /\ branch' = None
    /\ expiredAtSelect' = FALSE
    /\ collectedAtExpiry' = << >>
    /\ respWrites' = IF method # "OPTIONS" /\ (method # "POST" \/ ~bodyOk) THEN <<"error">> ELSE << >>
    /\ IF method = "OPTIONS"
       THEN /\ respStatus' = StatusOK
            /\ respBody' = None
            /\ hPc' = "returned"
            /\ ctxState' = None
            /\ crawlPc' = None
       ELSE IF method # "POST"
       THEN /\ respStatus' = StatusMethodNotAllowed
            /\ respBody' = "error"
            /\ hPc' = "returned"
            /\ ctxState' = None
            /\ crawlPc' = None
       ELSE IF ~bodyOk
       THEN /\ respStatus' = StatusBadRequest
            /\ respBody' = "error"
            /\ hPc' = "returned"
            /\ ctxState' = None
            /\ crawlPc' = None
       ELSE /\ respStatus' = 0
            /\ respBody' = None
            /\ hPc' = "select"
            /\ ctxState' = "armed"
            /\ crawlPc' = "running"
    /\ UNCHANGED otherThanCrawl

\* crawlFunc appends one more result string to its local results
CrawlAppend ==
    /\ crawlPc = "running"
    /\ Len(collected) < Len(crawlTarget)
    /\ collected' = Append(collected, crawlTarget[Len(collected) + 1])
    /\ UNCHANGED <<hPc, hMethod, hBodyOk, platform, ctxState, resultsChan, hResults,
                   crawlPc, crawlTarget, respStatus, respBody, respResults,
                   crawlReturned, branch, expiredAtSelect, collectedAtExpiry>>
    /\ UNCHANGED crawlFailed
    /\ UNCHANGED respWrites
    /\ UNCHANGED otherThanCrawl

\* CrawlFuncReturn on a channel made without a buffer: the send waits until
\* the handler is at its receive
CrawlFuncReturnUnbuffered ==
    /\ crawlPc = "running"
    /\ collected = crawlTarget
    /\ hPc = "select"
    /\ resultsChan' = Append(resultsChan, collected)
    /\ crawlReturned' = collected
    /\ crawlPc' = "exited"
    /\ UNCHANGED <<hPc, hMethod, hBodyOk, platform, ctxState, hResults,
                   crawlTarget, collected, respStatus, respBody, respResults,
                   branch, expiredAtSelect, collectedAtExpiry>>
    /\ UNCHANGED crawlFailed
    /\ UNCHANGED respWrites
    /\ UNCHANGED otherThanCrawl

\* crawlFunc returns its results and the goroutine sends them: the channel has
\* room for the one value, so the send never waits for a receiver
CrawlFuncReturn ==
    /\ crawlPc = "running"
    /\ collected = crawlTarget
    /\ Len(resultsChan) < 1
    /\ resultsChan' = Append(resultsChan, collected)
    /\ crawlReturned' = collected
    /\ crawlPc' = "exited"
    /\ UNCHANGED <<hPc, hMethod, hBodyOk, platform, ctxState, hResults,
                   crawlTarget, collected, respStatus, respBody, respResults,
                   branch, expiredAtSelect, collectedAtExpiry>>
    /\ UNCHANGED crawlFailed
    /\ UNCHANGED respWrites
    /\ UNCHANGED otherThanCrawl

\* crawlFunc fails before it has appended anything (login, navigation, API
\* call or parse error) and the goroutine sends what it returns then
CrawlFuncFail ==
    /\ crawlPc = "running"
    /\ collected = << >>
    /\ Len(resultsChan) < 1
    /\ resultsChan' = Append(resultsChan, CrawlFailure(platform))
    /\ crawlReturned' = CrawlFailure(platform)
    /\ crawlFailed' = TRUE
    /\ crawlPc' = "exited"
    /\ UNCHANGED <<hPc, hMethod, hBodyOk, platform, ctxState, hResults,
                   crawlTarget, collected, respStatus, respBody, respResults,
                   branch, expiredAtSelect, collectedAtExpiry>>
    /\ UNCHANGED respWrites
    /\ UNCHANGED otherThanCrawl

\* the deadline of context.WithTimeout passes: ctx.Done() is closed
DeadlineExpires ==
    /\ ctxState = "armed"
    /\ ctxState' = "expired"
    /\ UNCHANGED <<hPc, hMethod, hBodyOk, platform, resultsChan, hResults,
                   crawlPc, crawlTarget, collected, respStatus, respBody, respResults,
                   crawlReturned, branch, expiredAtSelect, collectedAtExpiry>>
    /\ UNCHANGED crawlFailed
    /\ UNCHANGED respWrites
    /\ UNCHANGED otherThanCrawl

\* SelectResults with "case <-resultsChan:", the received value not assigned
SelectResultsNotAssigned ==
    /\ hPc = "select"
    /\ Len(resultsChan) > 0
    /\ hResults' = hResults
    /\ resultsChan' = Tail(resultsChan)
    /\ respStatus' = StatusOK
    /\ respBody' = "json"
    /\ respResults' = hResults
    /\ respWrites' = Append(respWrites, "json")
    /\ branch' = "results"
    /\ expiredAtSelect' = (ctxState = "expired")
    /\ ctxState' = "canceled"
    /\ hPc' = "returned"
    /\ UNCHANGED <<hMethod, hBodyOk, platform, crawlPc, crawlTarget, collected,
                   crawlReturned, collectedAtExpiry>>
    /\ UNCHANGED crawlFailed
    /\ UNCHANGED otherThanCrawl

\* case results = <-resultsChan, then the JSON response and the deferred cancel()
SelectResults ==
    /\ hPc = "select"
    /\ Len(resultsChan) > 0
    /\ hResults' = Head(resultsChan)
    /\ resultsChan' = Tail(resultsChan)
    /\ respStatus' = StatusOK
    /\ respBody' = "json"
    /\ respResults' = Head(resultsChan)
    /\ respWrites' = Append(respWrites, "json")
    /\ branch' = "results"
    /\ expiredAtSelect' = (ctxState = "expired")
    /\ ctxState' = "canceled"
    /\ hPc' = "returned"
    /\ UNCHANGED <<hMethod, hBodyOk, platform, crawlPc, crawlTarget, collected,
                   crawlReturned, collectedAtExpiry>>
    /\ UNCHANGED crawlFailed
    /\ UNCHANGED otherThanCrawl

\* SelectTimeout without the return after http.Error: the JSON body follows the error
SelectTimeoutNoReturn ==
    /\ hPc = "select"
    /\ ctxState = "expired"
    /\ IF Len(hResults) > 0
       THEN /\ respStatus' = StatusOK
            /\ respBody' = "json"
            /\ respResults' = hResults
            /\ respWrites' = Append(respWrites, "json")
       ELSE /\ respStatus' = StatusGatewayTimeout
            /\ respBody' = "error"
            /\ respResults' = Nil
            /\ respWrites' = Append(Append(respWrites, "error"), "json")
    /\ branch' = "timeout"
    /\ expiredAtSelect' = TRUE
    /\ collectedAtExpiry' = collected
    /\ ctxState' = "canceled"
    /\ hPc' = "returned"
    /\ UNCHANGED <<hMethod, hBodyOk, platform, resultsChan, hResults, crawlPc,
                   crawlTarget, collected, crawlReturned>>
    /\ UNCHANGED crawlFailed
    /\ UNCHANGED otherThanCrawl

\* case <-ctx.Done(): results still is the nil slice it was declared as; with
\* len(results) > 0 the JSON response follows, else http.Error with 504
SelectTimeout ==
    /\ hPc = "select"
    /\ ctxState = "expired"
    /\ IF Len(hResults) > 0
       THEN /\ respStatus' = StatusOK
            /\ respBody' = "json"
            /\ respResults' = hResults
            /\ respWrites' = Append(respWrites, "json")
       ELSE /\ respStatus' = StatusGatewayTimeout
            /\ respBody' = "error"
            /\ respResults' = Nil
            /\ respWrites' = Append(respWrites, "error")
    /\ branch' = "timeout"
    /\ expiredAtSelect' = TRUE
    /\ collectedAtExpiry' = collected
    /\ ctxState' = "canceled"
    /\ hPc' = "returned"
    /\ UNCHANGED <<hMethod, hBodyOk, platform, resultsChan, hResults, crawlPc,
                   crawlTarget, collected, crawlReturned>>
    /\ UNCHANGED crawlFailed
    /\ UNCHANGED otherThanCrawl

NextCrawl ==
    \/ \E method \in Methods, bodyOk \in BOOLEAN, pf \in Platforms, target \in CrawlTargets :
          CrawlRequest(method, bodyOk, pf, target)
    \/ CrawlAppend
    \/ CrawlFuncReturn
    \/ CrawlFuncFail
    \/ DeadlineExpires
    \/ SelectResults
    \/ SelectTimeout

-----------------------------------------------------------------------------
(* fetchNewsFeedsWithCache and fetchYouTubeFeedsWithCache, called by *)
(* concurrent requests *)

MaxCallers == 2

Callers == 1..MaxCallers

CachedSources == {s \in SourceSet : Cached(s)}

CallKeywords == {"go"}

CacheKeys == {CacheKey(s, kw) : s \in CachedSources, kw \in CallKeywords}

KeyOf(c) == CacheKey(callSrc[c], callKw[c])

\* the calls for key k that are between their first and their last statement
InFlight(k) == {c \in Callers : callPc[c] \in {"load", "calling", "store"} /\ KeyOf(c) = k}

\* what the next call for the key remembers of a call that has returned: its
\* result and whether it found the cache cold, if no other call for the key
\* overlapped it
NoCall == [known |-> FALSE, ret |-> Nil, cold |-> FALSE]

Finished(c, ret, cold) ==
    IF alone[c] THEN [known |-> TRUE, ret |-> ret, cold |-> cold] ELSE NoCall

\* the return statement of a wrapper touches nothing but the frame of its call,
\* so it commutes with every step of the other callers: it is taken as soon as
\* the value to return is known, before any other step
NoneReturning == \A d \in Callers : callPc[d] # "returned"

InitCalls ==
    /\ callPc = [c \in Callers |-> "idle"]
    /\ callSrc = [c \in Callers |-> "NewsAPI"]
    /\ callKw = [c \in Callers |-> "go"]
    /\ callRes = [c \in Callers |-> Nil]
    /\ callRet = [c \in Callers |-> Nil]
    /\ invocations = [c \in Callers |-> 0]
    /\ callFailed = [c \in Callers |-> FALSE]
    /\ alone = [c \in Callers |-> TRUE]
    /\ pred = [c \in Callers |-> NoCall]
    /\ afterFailStore = [c \in Callers |-> FALSE]
    /\ prev = [k \in CacheKeys |-> NoCall]
    /\ adapterCalls = [k \in CacheKeys |-> 0]
    /\ failStored = {}

\* a request goroutine enters fetchNewsFeedsWithCache(kw) or fetchYouTubeFeedsWithCache(kw)
FetchWithCacheCall(c, src, kw) ==
    /\ callPc[c] = "idle"
    /\ NoneReturning
    /\ callPc' = [callPc EXCEPT ![c] = "load"]
    /\ callSrc' = [callSrc EXCEPT ![c] = src]
    /\ callKw' = [callKw EXCEPT ![c] = kw]
    /\ callRes' = [callRes EXCEPT ![c] = Nil]
    /\ callRet' = [callRet EXCEPT ![c] = Nil]
    /\ invocations' = [invocations EXCEPT ![c] = 0]
    /\ callFailed' = [callFailed EXCEPT ![c] = FALSE]
    /\ alone' = [d \in Callers |->
                    IF d = c THEN InFlight(CacheKey(src, kw)) = {}
                    ELSE IF d \in InFlight(CacheKey(src, kw)) THEN FALSE
                    ELSE alone[d]]
    /\ pred' = [d \in Callers |->
                   IF d = c
                   THEN IF InFlight(CacheKey(src, kw)) = {} THEN prev[CacheKey(src, kw)] ELSE NoCall
                   ELSE IF d \in InFlight(CacheKey(src, kw)) THEN NoCall
                   ELSE pred[d]]
    /\ afterFailStore' = [afterFailStore EXCEPT ![c] = CacheKey(src, kw) \in failStored]
    /\ UNCHANGED <<cache, prev, adapterCalls, failStored>>
    /\ UNCHANGED otherThanCalls

\* FetchWithCacheLoad where both wrappers look up the "news:" key
FetchWithCacheLoadNewsKey(c) ==
    /\ callPc[c] = "load"
    /\ NoneReturning
    /\ IF CacheKey("NewsAPI", callKw[c]) \in DOMAIN cache
       THEN /\ callRet' = [callRet EXCEPT ![c] = cache[CacheKey("NewsAPI", callKw[c])]]
            /\ callPc' = [callPc EXCEPT ![c] = "returned"]
            /\ prev' = [prev EXCEPT ![KeyOf(c)] =
                            Finished(c, cache[CacheKey("NewsAPI", callKw[c])], FALSE)]
            /\ UNCHANGED <<invocations, adapterCalls>>
       ELSE /\ callPc' = [callPc EXCEPT ![c] = "calling"]
            /\ invocations' = [invocations EXCEPT ![c] = @ + 1]
            /\ adapterCalls' = [adapterCalls EXCEPT ![KeyOf(c)] = @ + 1]
            /\ UNCHANGED <<callRet, prev>>
    /\ UNCHANGED <<cache, callSrc, callKw, callRes, callFailed, alone, pred,
                   afterFailStore, failStored>>
    /\ UNCHANGED otherThanCalls

\* if cached, ok := cache.Load(key); ok { return cached.([]FeedResult) }, else
\* the call of the adapter
FetchWithCacheLoad(c) ==
    /\ callPc[c] = "load"
    /\ NoneReturning
    /\ IF KeyOf(c) \in DOMAIN cache
       THEN /\ callRet' = [callRet EXCEPT ![c] = cache[KeyOf(c)]]
            /\ callPc' = [callPc EXCEPT ![c] = "returned"]
            /\ prev' = [prev EXCEPT ![KeyOf(c)] = Finished(c, cache[KeyOf(c)], FALSE)]
            /\ UNCHANGED <<invocations, adapterCalls>>
       ELSE /\ callPc' = [callPc EXCEPT ![c] = "calling"]
            /\ invocations' = [invocations EXCEPT ![c] = @ + 1]
            /\ adapterCalls' = [adapterCalls EXCEPT ![KeyOf(c)] = @ + 1]
            /\ UNCHANGED <<callRet, prev>>
    /\ UNCHANGED <<cache, callSrc, callKw, callRes, callFailed, alone, pred,
                   afterFailStore, failStored>>
    /\ UNCHANGED otherThanCalls

\* results := fetchNewsFeeds(keyword) / fetchYouTubeFeeds(keyword) returns
FetchAdapterReturn(c) ==
    /\ callPc[c] = "calling"
    /\ NoneReturning
    /\ \E resp \in Upstream(callSrc[c]) :
         /\ callRes' = [callRes EXCEPT ![c] = Adapter(callSrc[c], resp)]
         /\ callFailed' = [callFailed EXCEPT ![c] = (resp = UpstreamError)]
    /\ callPc' = [callPc EXCEPT ![c] = "store"]
    /\ UNCHANGED <<cache, callSrc, callKw, callRet, invocations, alone, pred,
                   afterFailStore, prev, adapterCalls, failStored>>
    /\ UNCHANGED otherThanCalls

\* FetchWithCacheStore that stores only a non-empty slice
FetchWithCacheStoreNonEmpty(c) ==
    /\ callPc[c] = "store"
    /\ NoneReturning
    /\ cache' = IF callRes[c] = Nil THEN cache ELSE MapPut(cache, KeyOf(c), callRes[c])
    /\ callRet' = [callRet EXCEPT ![c] = callRes[c]]
    /\ callRes' = [callRes EXCEPT ![c] = Nil]
    /\ callPc' = [callPc EXCEPT ![c] = "returned"]
    /\ prev' = [prev EXCEPT ![KeyOf(c)] = Finished(c, callRes[c], TRUE)]
    /\ failStored' = IF callFailed[c] THEN failStored \cup {KeyOf(c)} ELSE failStored
    /\ callFailed' = [callFailed EXCEPT ![c] = FALSE]
    /\ UNCHANGED <<callSrc, callKw, invocations, alone, pred,
                   afterFailStore, adapterCalls>>
    /\ UNCHANGED otherThanCalls

\* FetchWithCacheStore as a LoadOrStore: an entry that is present is kept
FetchWithCacheStoreIfAbsent(c) ==
    /\ callPc[c] = "store"
    /\ NoneReturning
    /\ cache' = IF KeyOf(c) \in DOMAIN cache THEN cache ELSE MapPut(cache, KeyOf(c), callRes[c])
    /\ callRet' = [callRet EXCEPT ![c] = callRes[c]]
    /\ callRes' = [callRes EXCEPT ![c] = Nil]
    /\ callPc' = [callPc EXCEPT ![c] = "returned"]
    /\ prev' = [prev EXCEPT ![KeyOf(c)] = Finished(c, callRes[c], TRUE)]
    /\ failStored' = IF callFailed[c] THEN failStored \cup {KeyOf(c)} ELSE failStored
    /\ callFailed' = [callFailed EXCEPT ![c] = FALSE]
    /\ UNCHANGED <<callSrc, callKw, invocations, alone, pred,
                   afterFailStore, adapterCalls>>
    /\ UNCHANGED otherThanCalls

\* cache.Store(key, results); return results
FetchWithCacheStore(c) ==
    /\ callPc[c] = "store"
    /\ NoneReturning
    /\ cache' = MapPut(cache, KeyOf(c), callRes[c])
    /\ callRet' = [callRet EXCEPT ![c] = callRes[c]]
    /\ callRes' = [callRes EXCEPT ![c] = Nil]
    /\ callPc' = [callPc EXCEPT ![c] = "returned"]
    /\ prev' = [prev EXCEPT ![KeyOf(c)] = Finished(c, callRes[c], TRUE)]
    /\ failStored' = IF callFailed[c] THEN failStored \cup {KeyOf(c)} ELSE failStored
    /\ callFailed' = [callFailed EXCEPT ![c] = FALSE]
    /\ UNCHANGED <<callSrc, callKw, invocations, alone, pred,
                   afterFailStore, adapterCalls>>
    /\ UNCHANGED otherThanCalls

\* return cached.([]FeedResult) / return results: the caller has the slice and
\* the frame of the call is gone
FetchWithCacheReturn(c) ==
    /\ callPc[c] = "returned"
    /\ callPc' = [callPc EXCEPT ![c] = "idle"]
    /\ callSrc' = [callSrc EXCEPT ![c] = "NewsAPI"]
    /\ callKw' = [callKw EXCEPT ![c] = "go"]
    /\ callRet' = [callRet EXCEPT ![c] = Nil]
    /\ invocations' = [invocations EXCEPT ![c] = 0]
    /\ alone' = [alone EXCEPT ![c] = TRUE]
    /\ pred' = [pred EXCEPT ![c] = NoCall]
    /\ afterFailStore' = [afterFailStore EXCEPT ![c] = FALSE]
    /\ UNCHANGED <<cache, callRes, callFailed, prev, adapterCalls, failStored>>
    /\ UNCHANGED otherThanCalls

NextCalls ==
    \/ \E c \in Callers, src \in CachedSources, kw \in CallKeywords : FetchWithCacheCall(c, src, kw)
    \/ \E c \in Callers : FetchWithCacheLoad(c)
    \/ \E c \in Callers : FetchAdapterReturn(c)
    \/ \E c \in Callers : FetchWithCacheStore(c)
    \/ \E c \in Callers : FetchWithCacheReturn(c)

-----------------------------------------------------------------------------
(* fetchCombinedNewsFeeds *)

MaxItems == 2

MaxTime == 2

\* 0 is the zero time.Time of a Published string that did not parse
Times == 0..MaxTime

\* the limit of "if len(allResults) > 100 { allResults = allResults[:100] }"
MaxCombined == 100

MergeSources == <<"RSS", "NewsAPI">>

MergeSourceSet == {MergeSources[i] : i \in 1..Len(MergeSources)}

\* the published times a feed or the News API may deliver, in upstream order
TimeSeqs == UNION {[1..n -> Times] : n \in 0..MaxItems}

\* what the adapter of a source may hand back: fetchRSSFeeds the matching
\* items in feed order, fetchNewsFeeds nil on an error and else its sorted items
\* the feeds may also hold a long run of matching items published at the same
\* time, later than the other items: one item fewer and one item more than the
\* cut of fetchCombinedNewsFeeds keeps
LongTime == MaxTime + 1

LongRuns == {[i \in 1..n |-> LongTime] : n \in {MaxCombined - 1, MaxCombined + 1}}

AdapterOutputs(src) ==
    IF src = "NewsAPI"
    THEN {fetchNewsFeeds(resp) : resp \in TimeSeqs \cup {UpstreamError}}
    ELSE {Items(src, ts) : ts \in TimeSeqs \cup LongRuns}

\* all ways to merge two sequences that keep the order within each
RECURSIVE Shuffles(_, _)
Shuffles(x, y) ==
    IF x = << >> THEN {y}
    ELSE IF y = << >> THEN {x}
    ELSE {<<Head(x)>> \o z : z \in Shuffles(Tail(x), y)}
         \cup {<<Head(y)>> \o z : z \in Shuffles(x, Tail(y))}

\* the items of s from one source with one published time (they are equal)
GroupOf(s, t, src) == SelectSeq(s, LAMBDA x : x.PublishedTime = t /\ x.Source = src)

\* every sequence that holds the items of s ordered by After: the items of
\* the latest time first, in any order among themselves
RECURSIVE SortedFrom(_, _)
SortedFrom(s, t) ==
    IF t < 0 THEN {<< >>}
    ELSE {g \o r : g \in Shuffles(GroupOf(s, t, "RSS"), GroupOf(s, t, "NewsAPI")),
                   r \in SortedFrom(s, t - 1)}

\* sort.Slice is not stable: beyond the 12 elements it sorts by insertion, the
\* order it leaves equal elements in is not specified
SortSliceOutcomes(s) ==
    IF Len(s) <= 12 THEN {SortSlice(s)} ELSE SortedFrom(s, LongTime)

SubSeqTo(s, n) == [i \in 1..n |-> s[i]]

InitMerge ==
    /\ mPc = "idle"
    /\ mNext = 1
    /\ allResults = Nil
    /\ mWg = 0
    /\ mMu = Free
    /\ mUnitPc = [u \in MergeSourceSet |-> "none"]
    /\ mUnitRes = [u \in MergeSourceSet |-> Nil]
    /\ appended = Nil
    /\ combined = Nil

\* newsCrawlHandler calls fetchCombinedNewsFeeds(keyword)
CombinedCall ==
    /\ mPc \in {"idle", "returned"}
    /\ mPc' = "spawn"
    /\ mNext' = 1
    /\ allResults' = Nil
    /\ mWg' = 0
    /\ mMu' = Free
    /\ mUnitPc' = [u \in MergeSourceSet |-> "none"]
    /\ mUnitRes' = [u \in MergeSourceSet |-> Nil]
    /\ appended' = Nil
    /\ combined' = Nil
    /\ UNCHANGED otherThanMerge

\* wg.Add(1); go func() { ... }()
CombinedSpawn ==
    /\ mPc = "spawn"
    /\ mNext <= Len(MergeSources)
    /\ mWg' = mWg + 1
    /\ mUnitPc' = [mUnitPc EXCEPT ![MergeSources[mNext]] = "calling"]
    /\ mNext' = mNext + 1
    /\ mPc' = IF mNext = Len(MergeSources) THEN "wait" ELSE "spawn"
    /\ UNCHANGED <<allResults, mMu, mUnitRes, appended, combined>>
    /\ UNCHANGED otherThanMerge

\* rssResults := fetchRSSFeeds(keyword) / newsAPIResults := fetchNewsFeeds(keyword)
CombinedAdapterReturn(u) ==
    /\ mUnitPc[u] = "calling"
    /\ \E out \in AdapterOutputs(u) : mUnitRes' = [mUnitRes EXCEPT ![u] = out]
    /\ mUnitPc' = [mUnitPc EXCEPT ![u] = "got"]
    /\ UNCHANGED <<mPc, mNext, allResults, mWg, mMu, appended, combined>>
    /\ UNCHANGED otherThanMerge

\* mu.Lock()
CombinedLock(u) ==
    /\ mUnitPc[u] = "got"
    /\ mMu = Free
    /\ mMu' = u
    /\ mUnitPc' = [mUnitPc EXCEPT ![u] = "locked"]
    /\ UNCHANGED <<mPc, mNext, allResults, mWg, mUnitRes, appended, combined>>
    /\ UNCHANGED otherThanMerge

\* allResults = append(allResults, xxxResults...); mu.Unlock()
CombinedAppend(u) ==
    /\ mUnitPc[u] = "locked"
    /\ allResults' = allResults \o mUnitRes[u]
    /\ mMu' = Free
    /\ mUnitPc' = [mUnitPc EXCEPT ![u] = "written"]
    /\ UNCHANGED <<mPc, mNext, mWg, mUnitRes, appended, combined>>
    /\ UNCHANGED otherThanMerge

\* the deferred wg.Done()
CombinedDone(u) ==
    /\ mUnitPc[u] = "written"
    /\ mWg' = mWg - 1
    /\ mUnitPc' = [mUnitPc EXCEPT ![u] = "done"]
    /\ UNCHANGED <<mPc, mNext, allResults, mMu, mUnitRes, appended, combined>>
    /\ UNCHANGED otherThanMerge

\* CombinedSortAndReturn with the cut to 100 made before the sort
CombinedCutThenSort ==
    /\ mPc = "wait"
    /\ mWg = 0
    /\ appended' = allResults
    /\ \E sorted \in SortSliceOutcomes(IF Len(allResults) > MaxCombined
                                        THEN SubSeqTo(allResults, MaxCombined)
                                        ELSE allResults) :
         /\ allResults' = sorted
         /\ combined' = sorted
    /\ mPc' = "returned"
    /\ UNCHANGED <<mNext, mWg, mMu, mUnitPc, mUnitRes>>
    /\ UNCHANGED otherThanMerge

\* wg.Wait() returns; sort.Slice by PublishedTime.After; the cut to 100; return
CombinedSortAndReturn ==
    /\ mPc = "wait"
    /\ mWg = 0
    /\ appended' = allResults
    /\ \E sorted \in SortSliceOutcomes(allResults) :
         /\ allResults' = sorted
         /\ combined' = IF Len(sorted) > MaxCombined
                        THEN SubSeqTo(sorted, MaxCombined)
                        ELSE sorted
    /\ mPc' = "returned"
    /\ UNCHANGED <<mNext, mWg, mMu, mUnitPc, mUnitRes>>
    /\ UNCHANGED otherThanMerge

NextMerge ==
    \/ CombinedCall
    \/ CombinedSpawn
    \/ \E u \in MergeSourceSet : CombinedAdapterReturn(u)
    \/ \E u \in MergeSourceSet : CombinedLock(u)
    \/ \E u \in MergeSourceSet : CombinedAppend(u)
    \/ \E u \in MergeSourceSet : CombinedDone(u)
    \/ CombinedSortAndReturn

-----------------------------------------------------------------------------
(* The published time of a FeedResult: time.Parse and the adapters' loops *)

\* A published string of the upstream is written as a number: Bad stands for
\* every text the layout of time.Parse rejects (the empty string of an absent
\* field included), t in 1..MaxTime for the well-formed text of the time t
Bad == -1

RawTimes == {Bad} \cup (1..MaxTime)

\* time.Parse(layout, value): the time and a nil error, or the zero time.Time
\* and an error
ParseTime(raw) ==
    IF raw = Bad THEN [time |-> 0, err |-> TRUE] ELSE [time |-> raw, err |-> FALSE]

\* the adapters that build FeedResults: fetchNewsFeeds, fetchRSSFeeds,
\* fetchTwitterFeedsFromHandles and fetchYouTubeFeeds of src/main.go,
\* fetchYouTubeFeeds of the crawl server, fetchFeedsFromServer of the client
ConvAdapters == {"NewsAPI", "RSS", "Twitter", "YouTube", "ServerYouTube", "Crawl"}

\* published, _ := time.Parse(...) keeps the zero time of a failed parse;
\* "if err != nil { published = time.Now() }" replaces it by the current time;
\* fetchFeedsFromServer reads no timestamp and stamps every item time.Now()
PublishedTimeOf(a, raw, now) ==
    CASE a \in {"Twitter", "ServerYouTube"} ->
             IF ParseTime(raw).err THEN now ELSE ParseTime(raw).time
      [] a = "Crawl" -> now
      [] OTHER -> ParseTime(raw).time

\* the clock reads later than every published time an upstream delivers
MaxClock == MaxTime + 2

ClockValues == (MaxTime + 1)..MaxClock

\* the result strings of the crawl server carry no published time
RawSeqs(a) ==
    IF a = "Crawl"
    THEN UNION {[1..n -> {Bad}] : n \in 0..MaxItems}
    ELSE UNION {[1..n -> RawTimes] : n \in 0..MaxItems}

InitConv ==
    /\ convPc = "idle"
    /\ convAdapter = "NewsAPI"
    /\ convRaw = << >>
    /\ convOut = Nil
    /\ clock = MaxTime + 1

\* the adapter has the decoded upstream response: var results []FeedResult
ConvBegin(a, raws, now) ==
    /\ convPc \in {"idle", "returned"}
    /\ convPc' = "loop"
    /\ convAdapter' = a
    /\ convRaw' = raws
    /\ convOut' = Nil
    /\ clock' = now
    /\ UNCHANGED otherThanConv

\* one round of "for _, item := range ...": parse the published string and
\* append the FeedResult; the clock may have advanced since it was last read
ConvAppend(now) ==
    /\ convPc = "loop"
    /\ Len(convOut) < Len(convRaw)
    /\ now >= clock
    /\ clock' = now
    /\ convOut' = Append(convOut,
                         FeedResult(convAdapter,
                                    PublishedTimeOf(convAdapter, convRaw[Len(convOut) + 1], now)))
    /\ UNCHANGED <<convPc, convAdapter, convRaw>>
    /\ UNCHANGED otherThanConv

\* the loop is over: fetchNewsFeeds sorts, then return results
ConvReturn ==
    /\ convPc = "loop"
    /\ Len(convOut) = Len(convRaw)
    /\ convOut' = IF convAdapter = "NewsAPI" THEN SortSlice(convOut) ELSE convOut
    /\ convPc' = "returned"
    /\ UNCHANGED <<convAdapter, convRaw, clock>>
    /\ UNCHANGED otherThanConv

NextConv ==
    \/ \E a \in ConvAdapters, now \in ClockValues : \E raws \in RawSeqs(a) : ConvBegin(a, raws, now)
    \/ \E now \in ClockValues : ConvAppend(now)
    \/ ConvReturn

-----------------------------------------------------------------------------
(* The keyword counter: loadSearchedKeywords, saveSearchedKeywords, *)
(* sortKeywordsByCount, indexHandler and searchHandler *)

KwSet == {"go", "rust"}

\* what c.PostForm("keyword") may be: a keyword or the empty string
PostForms == KwSet \cup {""}

MaxRequests == 2

Requests == 1..MaxRequests

MaxSearches == 2

\* the mutex held by no request
Unlocked == 0

\* searchedKeywords[k] of a key that is not in the map is the zero value
CountOf(m, k) == IF k \in DOMAIN m THEN m[k] ELSE 0

NoFile == [exists |-> FALSE, whole |-> FALSE, content |-> EmptyMap]

\* a file that json.Decode rejects
BrokenFile == [exists |-> TRUE, whole |-> FALSE, content |-> EmptyMap]

FileOf(m) == [exists |-> TRUE, whole |-> TRUE, content |-> m]

\* what searched_keywords.json may be when the process starts
StartupFiles == {NoFile, BrokenFile, FileOf(MapPut(EmptyMap, "rust", 1))}

\* every order in which "for k, v := range keywords" may visit the keys
IterationOrders(m) ==
    {f \in [1..Cardinality(DOMAIN m) -> DOMAIN m] :
        \A i, j \in 1..Cardinality(DOMAIN m) : i # j => f[i] # f[j]}

\* KVSiftDown with the comparison of the less function turned round
KVSiftDownAscending(s, j) ==
    IF j > 1 /\ s[j].Value < s[j - 1].Value THEN Swap(s, j, j - 1) ELSE s

\* the inner loop of the insertion sort with the less function
\* sorted[i].Value > sorted[j].Value
RECURSIVE KVSiftDown(_, _)
KVSiftDown(s, j) ==
    IF j > 1 /\ s[j].Value > s[j - 1].Value
    THEN KVSiftDown(Swap(s, j, j - 1), j - 1)
    ELSE s

RECURSIVE KVInsertionSortFrom(_, _)
KVInsertionSortFrom(s, i) ==
    IF i > Len(s) THEN s ELSE KVInsertionSortFrom(KVSiftDown(s, i), i + 1)

\* sortKeywordsByCount(keywords): the kv pairs in the order the range loop
\* visits the map, sort.Slice by Value descending, then the keys; one result
\* for each order the loop may take
sortKeywordsByCount(m) ==
    {[i \in 1..Cardinality(DOMAIN m) |->
         KVInsertionSortFrom([n \in 1..Cardinality(DOMAIN m) |->
                                 [Key |-> order[n], Value |-> m[order[n]]]], 2)[i].Key] :
     order \in IterationOrders(m)}

\* what a range loop may copy when the map went from a to b while it ran (a
\* data race): for each key a count between the one it had and the one it
\* has, or nothing for a key that was not there when the loop began
SnapshotsBetween(a, b) ==
    {m \in UNION {[D -> 1..(MaxSearches + 1)] : D \in SUBSET DOMAIN b} :
        \A k \in DOMAIN b :
            IF k \in DOMAIN m
            THEN CountOf(a, k) <= m[k] /\ m[k] <= b[k]
            ELSE k \notin DOMAIN a}

\* writing the response touches nothing but the request's own state, so it
\* commutes with every step of the other requests: it is taken as soon as the
\* handler has what it renders, before any other step
NoneResponding == \A q \in Requests : reqPc[q] \notin {"sorted", "responded"}

InitKw ==
    /\ srvPc = "boot"
    /\ searchedKeywords = EmptyMap
    /\ searchedKeywordsLock = Unlocked
    /\ kwFile = NoFile
    /\ reqPc = [r \in Requests |-> "idle"]
    /\ reqKind = [r \in Requests |-> "index"]
    /\ reqKeyword = [r \in Requests |-> ""]
    /\ reqCount = [r \in Requests |-> 0]
    /\ reqSaved = [r \in Requests |-> FALSE]
    /\ reqIter = [r \in Requests |-> EmptyMap]
    /\ reqSorted = [r \in Requests |-> << >>]
    /\ sortedFrom = [r \in Requests |-> EmptyMap]
    /\ startup = EmptyMap
    /\ increments = [k \in KwSet |-> 0]
    /\ searches = 0

\* main: loadSearchedKeywords() reads the file into the map, or leaves the map
\* empty when the file is missing or does not decode; then the router runs
loadSearchedKeywords(f) ==
    /\ srvPc = "boot"
    /\ kwFile' = f
    /\ searchedKeywords' = IF f.exists /\ f.whole THEN f.content ELSE EmptyMap
    /\ startup' = IF f.exists /\ f.whole THEN f.content ELSE EmptyMap
    /\ srvPc' = "serving"
    /\ UNCHANGED <<searchedKeywordsLock, reqPc, reqKind, reqKeyword, reqCount, reqSaved,
                   reqIter, reqSorted, sortedFrom, increments, searches>>
    /\ UNCHANGED otherThanKw

\* GET /: indexHandler begins
IndexRequest(r) ==
    /\ srvPc = "serving"
    /\ NoneResponding
    /\ reqPc[r] = "idle"
    /\ reqKind' = [reqKind EXCEPT ![r] = "index"]
    /\ reqPc' = [reqPc EXCEPT ![r] = "lock"]
    /\ UNCHANGED <<srvPc, searchedKeywords, searchedKeywordsLock, kwFile, reqKeyword,
                   reqCount, reqSaved, reqIter, reqSorted, sortedFrom, startup,
                   increments, searches>>
    /\ UNCHANGED otherThanKw

\* SearchRequest that goes to fetchAllFeeds first thing, without the increment
SearchRequestFetchFirst(r, kw) ==
    /\ srvPc = "serving"
    /\ NoneResponding
    /\ reqPc[r] = "idle"
    /\ searches < MaxSearches
    /\ searches' = searches + 1
    /\ reqKind' = [reqKind EXCEPT ![r] = "search"]
    /\ reqKeyword' = [reqKeyword EXCEPT ![r] = kw]
    /\ reqPc' = [reqPc EXCEPT ![r] = IF kw = "" THEN "responded" ELSE "fetch"]
    /\ UNCHANGED <<srvPc, searchedKeywords, searchedKeywordsLock, kwFile,
                   reqCount, reqSaved, reqIter, reqSorted, sortedFrom, startup, increments>>
    /\ UNCHANGED otherThanKw

\* POST /search: searchHandler reads the form; an empty keyword is redirected to /
SearchRequest(r, kw) ==
    /\ srvPc = "serving"
    /\ NoneResponding
    /\ reqPc[r] = "idle"
    /\ searches < MaxSearches
    /\ searches' = searches + 1
    /\ reqKind' = [reqKind EXCEPT ![r] = "search"]
    /\ reqKeyword' = [reqKeyword EXCEPT ![r] = kw]
    /\ reqPc' = [reqPc EXCEPT ![r] = IF kw = "" THEN "responded" ELSE "lock"]
    /\ UNCHANGED <<srvPc, searchedKeywords, searchedKeywordsLock, kwFile,
                   reqCount, reqSaved, reqIter, reqSorted, sortedFrom, startup, increments>>
    /\ UNCHANGED otherThanKw

\* KwLock that does not wait for the mutex
KwLockNoWait(r) ==
    /\ srvPc = "serving"
    /\ NoneResponding
    /\ reqPc[r] = "lock"
    /\ searchedKeywordsLock' = r
    /\ reqPc' = [reqPc EXCEPT ![r] = IF reqKind[r] = "index" THEN "sort" ELSE "read"]
    /\ UNCHANGED <<srvPc, searchedKeywords, kwFile, reqKind, reqKeyword, reqCount, reqSaved,
                   reqIter, reqSorted, sortedFrom, startup, increments, searches>>
    /\ UNCHANGED otherThanKw

\* searchedKeywordsLock.Lock()
KwLock(r) ==
    /\ srvPc = "serving"
    /\ NoneResponding
    /\ reqPc[r] = "lock"
    /\ searchedKeywordsLock = Unlocked
    /\ searchedKeywordsLock' = r
    /\ reqPc' = [reqPc EXCEPT ![r] = IF reqKind[r] = "index" THEN "sort" ELSE "read"]
    /\ UNCHANGED <<srvPc, searchedKeywords, kwFile, reqKind, reqKeyword, reqCount, reqSaved,
                   reqIter, reqSorted, sortedFrom, startup, increments, searches>>
    /\ UNCHANGED otherThanKw

\* searchedKeywords[keyword]++, the read of the count
KwRead(r) ==
    /\ srvPc = "serving"
    /\ NoneResponding
    /\ reqPc[r] = "read"
    /\ reqCount' = [reqCount EXCEPT ![r] = CountOf(searchedKeywords, reqKeyword[r])]
    /\ reqPc' = [reqPc EXCEPT ![r] = "write"]
    /\ UNCHANGED <<srvPc, searchedKeywords, searchedKeywordsLock, kwFile, reqKind, reqKeyword,
                   reqSaved, reqIter, reqSorted, sortedFrom, startup, increments, searches>>
    /\ UNCHANGED otherThanKw

\* searchedKeywords[keyword]++, the write of the count plus one
KwWrite(r) ==
    /\ srvPc = "serving"
    /\ NoneResponding
    /\ reqPc[r] = "write"
    /\ searchedKeywords' = MapPut(searchedKeywords, reqKeyword[r], reqCount[r] + 1)
    /\ increments' = [increments EXCEPT ![reqKeyword[r]] = @ + 1]
    /\ reqCount' = [reqCount EXCEPT ![r] = @ + 1]
    /\ reqPc' = [reqPc EXCEPT ![r] = "save"]
    /\ UNCHANGED <<srvPc, searchedKeywordsLock, kwFile, reqKind, reqKeyword,
                   reqSaved, reqIter, reqSorted, sortedFrom, startup, searches>>
    /\ UNCHANGED otherThanKw

SaveOutcomes == {"written", "createFailed"}

\* saveSearchedKeywords(): os.Create truncates the file and Encode writes the
\* map; when Create fails the error is logged and the file stays as it is
saveSearchedKeywords(r, outcome) ==
    /\ srvPc = "serving"
    /\ NoneResponding
    /\ reqPc[r] = "save"
    /\ kwFile' = IF outcome = "written" THEN FileOf(searchedKeywords) ELSE kwFile
    /\ reqSaved' = [reqSaved EXCEPT ![r] = (outcome = "written")]
    /\ reqPc' = [reqPc EXCEPT ![r] = "unlock"]
    /\ UNCHANGED <<srvPc, searchedKeywords, searchedKeywordsLock, reqKind, reqKeyword,
                   reqCount, reqIter, reqSorted, sortedFrom, startup, increments, searches>>
    /\ UNCHANGED otherThanKw

\* searchedKeywordsLock.Unlock(): indexHandler goes on to render, searchHandler
\* to fetchAllFeeds(keyword)
KwUnlock(r) ==
    /\ srvPc = "serving"
    /\ NoneResponding
    /\ reqPc[r] = "unlock"
    /\ searchedKeywordsLock' = Unlocked
    /\ reqPc' = [reqPc EXCEPT ![r] = IF reqKind[r] = "index" THEN "sorted" ELSE "fetch"]
    /\ UNCHANGED <<srvPc, searchedKeywords, kwFile, reqKind, reqKeyword, reqCount, reqSaved,
                   reqIter, reqSorted, sortedFrom, startup, increments, searches>>
    /\ UNCHANGED otherThanKw

\* results := fetchAllFeeds(keyword) returns
FetchAllFeedsReturns(r) ==
    /\ srvPc = "serving"
    /\ NoneResponding
    /\ reqPc[r] = "fetch"
    /\ reqPc' = [reqPc EXCEPT ![r] = "sort"]
    /\ UNCHANGED <<srvPc, searchedKeywords, searchedKeywordsLock, kwFile, reqKind, reqKeyword,
                   reqCount, reqSaved, reqIter, reqSorted, sortedFrom, startup,
                   increments, searches>>
    /\ UNCHANGED otherThanKw

\* sortKeywordsByCount(searchedKeywords) is called: the range loop begins
SortBegin(r) ==
    /\ srvPc = "serving"
    /\ NoneResponding
    /\ reqPc[r] = "sort"
    /\ reqIter' = [reqIter EXCEPT ![r] = searchedKeywords]
    /\ reqPc' = [reqPc EXCEPT ![r] = "iterating"]
    /\ UNCHANGED <<srvPc, searchedKeywords, searchedKeywordsLock, kwFile, reqKind, reqKeyword,
                   reqCount, reqSaved, reqSorted, sortedFrom, startup, increments, searches>>
    /\ UNCHANGED otherThanKw

\* the range loop has copied the map, sort.Slice has run and the keys are
\* returned; indexHandler goes on to Unlock, searchHandler to render
SortEnd(r) ==
    /\ srvPc = "serving"
    /\ NoneResponding
    /\ reqPc[r] = "iterating"
    /\ \E snap \in SnapshotsBetween(reqIter[r], searchedKeywords) :
         /\ sortedFrom' = [sortedFrom EXCEPT ![r] = snap]
         /\ \E out \in sortKeywordsByCount(snap) : reqSorted' = [reqSorted EXCEPT ![r] = out]
    /\ reqIter' = [reqIter EXCEPT ![r] = EmptyMap]
    /\ reqPc' = [reqPc EXCEPT ![r] = IF reqKind[r] = "index" THEN "unlock" ELSE "sorted"]
    /\ UNCHANGED <<srvPc, searchedKeywords, searchedKeywordsLock, kwFile, reqKind, reqKeyword,
                   reqCount, reqSaved, startup, increments, searches>>
    /\ UNCHANGED otherThanKw

\* the runtime finds the map written while a range loop iterates it:
\* "fatal error: concurrent map iteration and map write"; the process and
\* all its goroutines end
ConcurrentMapFault(r) ==
    /\ srvPc = "serving"
    /\ NoneResponding
    /\ reqPc[r] = "iterating"
    /\ reqIter[r] # searchedKeywords
    /\ srvPc' = "crashed"
    /\ searchedKeywordsLock' = Unlocked
    /\ reqPc' = [q \in Requests |-> "idle"]
    /\ reqKind' = [q \in Requests |-> "index"]
    /\ reqKeyword' = [q \in Requests |-> ""]
    /\ reqCount' = [q \in Requests |-> 0]
    /\ reqSaved' = [q \in Requests |-> FALSE]
    /\ reqIter' = [q \in Requests |-> EmptyMap]
    /\ reqSorted' = [q \in Requests |-> << >>]
    /\ sortedFrom' = [q \in Requests |-> EmptyMap]
    /\ UNCHANGED <<searchedKeywords, kwFile, startup, increments, searches>>
    /\ UNCHANGED otherThanKw

\* c.HTML(...) or c.Redirect(...): the handler returns
RequestDone(r) ==
    /\ srvPc = "serving"
    /\ reqPc[r] \in {"sorted", "responded"}
    /\ reqPc' = [reqPc EXCEPT ![r] = "idle"]
    /\ reqKind' = [reqKind EXCEPT ![r] = "index"]
    /\ reqKeyword' = [reqKeyword EXCEPT ![r] = ""]
    /\ reqCount' = [reqCount EXCEPT ![r] = 0]
    /\ reqSaved' = [reqSaved EXCEPT ![r] = FALSE]
    /\ reqIter' = [reqIter EXCEPT ![r] = EmptyMap]
    /\ reqSorted' = [reqSorted EXCEPT ![r] = << >>]
    /\ sortedFrom' = [sortedFrom EXCEPT ![r] = EmptyMap]
    /\ UNCHANGED <<srvPc, searchedKeywords, searchedKeywordsLock, kwFile,
                   startup, increments, searches>>
    /\ UNCHANGED otherThanKw

NextKw ==
    \/ \E f \in StartupFiles : loadSearchedKeywords(f)
    \/ \E r \in Requests : IndexRequest(r)
    \/ \E r \in Requests, kw \in PostForms : SearchRequest(r, kw)
    \/ \E r \in Requests : KwLock(r)
    \/ \E r \in Requests : KwRead(r)
    \/ \E r \in Requests : KwWrite(r)
    \/ \E r \in Requests, outcome \in SaveOutcomes : saveSearchedKeywords(r, outcome)
    \/ \E r \in Requests : KwUnlock(r)
    \/ \E r \in Requests : FetchAllFeedsReturns(r)
    \/ \E r \in Requests : SortBegin(r)
    \/ \E r \in Requests : SortEnd(r)
    \/ \E r \in Requests : ConcurrentMapFault(r)
    \/ \E r \in Requests : RequestDone(r)

-----------------------------------------------------------------------------
(* sortKeywordsByCount applied to the maps that increments build, one *)
(* request at a time *)

TopKeys == {"go", "rust", "zig"}

MaxCount == 3

InitTop ==
    /\ topMap = EmptyMap
    /\ topOut = << >>
    /\ topPrev = << >>
    /\ topCalls = 0

\* searchedKeywords[keyword]++ of a search
TopIncrement(k) ==
    /\ CountOf(topMap, k) < MaxCount
    /\ topMap' = MapPut(topMap, k, CountOf(topMap, k) + 1)
    /\ topOut' = << >>
    /\ topPrev' = << >>
    /\ topCalls' = 0
    /\ UNCHANGED otherThanTop

\* sortedKeywords := sortKeywordsByCount(searchedKeywords) of indexHandler
TopSort ==
    /\ topCalls < 2
    /\ \E out \in sortKeywordsByCount(topMap) : topOut' = out
    /\ topPrev' = topOut
    /\ topCalls' = topCalls + 1
    /\ UNCHANGED topMap
    /\ UNCHANGED otherThanTop

NextTop ==
    \/ \E k \in TopKeys : TopIncrement(k)
    \/ TopSort

-----------------------------------------------------------------------------
(* GET /news: newsPaginationHandler and fetchNewsFeedsWithPagination, beside *)
(* a cached fetch and a search of the same process *)

MaxPage == 2

Pages == 1..MaxPage

\* what the News API may answer to a page request: an error, or the
\* publishedAt strings of the articles of the page (in order, out of order,
\* equal, or not in the layout time.Parse expects)
PageResponses == {UpstreamError, << >>, <<2, 1>>, <<1, 2>>, <<1, 1>>, <<Bad, 2>>, <<1, Bad>>}

\* the GET of fetchNewsFeedsWithPagination: q=<keyword>&...&page=<page>
PageGet(kw, p) == [q |-> kw, page |-> p]

\* the articles of a page as the loop builds them: published, _ := time.Parse(...)
PageItems(resp) == Items("NewsAPI", [i \in 1..Len(resp) |-> ParseTime(resp[i]).time])

\* fetchNewsFeedsWithPagination: nil on an error, else the articles of the
\* page sorted most recent first
fetchNewsFeedsWithPagination(resp) ==
    IF resp = UpstreamError THEN Nil ELSE SortSlice(PageItems(resp))

InitPage ==
    /\ pagePc = "idle"
    /\ pageKw = ""
    /\ pageNum = 1
    /\ pageGets = << >>
    /\ pageResp = << >>
    /\ pageOut = Nil

\* PageRequest that answers from the "news:" entry of the cache when there is one
PageRequestThroughCache(kw, p) ==
    /\ pagePc = "idle"
    /\ pageKw' = kw
    /\ pageNum' = p
    /\ pageResp' = << >>
    /\ IF CacheKey("NewsAPI", kw) \in DOMAIN cache
       THEN /\ pagePc' = "responded"
            /\ pageGets' = << >>
            /\ pageOut' = cache[CacheKey("NewsAPI", kw)]
       ELSE /\ pagePc' = "calling"
            /\ pageGets' = <<PageGet(kw, p)>>
            /\ pageOut' = Nil
    /\ UNCHANGED otherThanPage

\* newsPaginationHandler reads keyword and page and calls
\* fetchNewsFeedsWithPagination, which sends its GET to the News API
PageRequest(kw, p) ==
    /\ pagePc = "idle"
    /\ pagePc' = "calling"
    /\ pageKw' = kw
    /\ pageNum' = p
    /\ pageGets' = <<PageGet(kw, p)>>
    /\ pageResp' = << >>
    /\ pageOut' = Nil
    /\ UNCHANGED otherThanPage

\* http.Get returns; the articles are decoded, converted and sorted, and the
\* handler writes them with c.JSON
PageResponse(resp) ==
    /\ pagePc = "calling"
    /\ pagePc' = "responded"
    /\ pageResp' = resp
    /\ pageOut' = fetchNewsFeedsWithPagination(resp)
    /\ UNCHANGED <<pageKw, pageNum, pageGets>>
    /\ UNCHANGED otherThanPage

\* the handler has returned
PageDone ==
    /\ pagePc = "responded"
    /\ pagePc' = "idle"
    /\ pageKw' = ""
    /\ pageNum' = 1
    /\ pageGets' = << >>
    /\ pageResp' = << >>
    /\ pageOut' = Nil
    /\ UNCHANGED otherThanPage

\* the page requests run beside one search request and one call of
\* fetchNewsFeedsWithCache for the same keyword
NextPage ==
    \/ \E kw \in CallKeywords, p \in Pages : PageRequest(kw, p)
    \/ \E resp \in PageResponses : PageResponse(resp)
    \/ PageDone
    \/ FetchWithCacheCall(1, "NewsAPI", "go")
    \/ FetchWithCacheLoad(1)
    \/ FetchAdapterReturn(1)
    \/ FetchWithCacheStore(1)
    \/ FetchWithCacheReturn(1)
    \/ loadSearchedKeywords(NoFile)
    \/ SearchRequest(1, "go")
    \/ KwLock(1)
    \/ KwRead(1)
    \/ KwWrite(1)
    \/ \E outcome \in SaveOutcomes : saveSearchedKeywords(1, outcome)
    \/ KwUnlock(1)
    \/ FetchAllFeedsReturns(1)
    \/ SortBegin(1)
    \/ SortEnd(1)
    \/ RequestDone(1)

-----------------------------------------------------------------------------
(* fetchRSSFeeds: the loop over NEWS_SOURCES and the keyword filter *)

\* number of entries of NEWS_SOURCES
MaxFeeds == 2

\* unicode.ToLower on the letters the titles are written with
Lower(ch) ==
    CASE ch = "G" -> "g"
      [] ch = "O" -> "o"
      [] ch = "X" -> "x"
      [] OTHER    -> ch

\* ToLower that leaves the string as it is
ToLowerIdentity(s) == s

\* strings.ToLower
ToLower(s) == [i \in 1..Len(s) |-> Lower(s[i])]

\* strings.Index(s, substr) from offset i on: the first offset at which substr
\* occurs, -1 when there is none
RECURSIVE IndexFrom(_, _, _)
IndexFrom(s, substr, i) ==
    IF i + Len(substr) > Len(s)
    THEN -1
    ELSE IF SubSeq(s, i + 1, i + Len(substr)) = substr
         THEN i
         ELSE IndexFrom(s, substr, i + 1)

\* strings.Contains(s, substr): strings.Index(s, substr) >= 0
Contains(s, substr) == IndexFrom(s, substr, 0) >= 0

\* the condition of the if in the loop over feed.Items
Selected(item, kw) ==
    \/ Contains(ToLower(item.Title), ToLower(kw))
    \/ Contains(ToLower(item.Description), ToLower(kw))

RssKeywords == {<< >>, <<"g", "o">>, <<"G", "O">>, <<"o", "x">>}

RssItem(title, description) == [Title |-> title, Description |-> description]

\* what fp.ParseURL may answer for a source: an error, or a feed with its items
FeedFailure == [ok |-> FALSE, title |-> "", items |-> << >>]

Feed(title, items) == [ok |-> TRUE, title |-> title, items |-> items]

FeedAnswers ==
    {FeedFailure,
     Feed("BBC", << >>),
     Feed("BBC", <<RssItem(<<"G", "o">>, << >>)>>),
     Feed("NYT", <<RssItem(<<"o", "g">>, <<"g">>), RssItem(<<"x">>, <<"o", "G", "o", "X">>)>>),
     Feed("NPR", <<RssItem(<<"x">>, <<"o", "G", "o", "X">>), RssItem(<<"G", "o">>, << >>)>>)}

\* the FeedResult appended for an item
RssResult(feed, item) ==
    [Title |-> item.Title, Description |-> item.Description, Source |-> feed.title]

\* the inner loop: the results extended by the selected items of one feed
RECURSIVE AppendSelected(_, _, _, _)
AppendSelected(out, feed, kw, i) ==
    IF i > Len(feed.items)
    THEN out
    ELSE AppendSelected(IF Selected(feed.items[i], kw)
                        THEN Append(out, RssResult(feed, feed.items[i]))
                        ELSE out,
                        feed, kw, i + 1)

InitRss ==
    /\ rssPc = "idle"
    /\ rssKeyword = << >>
    /\ rssFeeds = << >>
    /\ rssOut = Nil

\* fetchRSSFeeds(keyword) is called: var results []FeedResult
RssCall(kw) ==
    /\ rssPc \in {"idle", "returned"}
    /\ rssPc' = "loop"
    /\ rssKeyword' = kw
    /\ rssFeeds' = << >>
    /\ rssOut' = Nil
    /\ UNCHANGED otherThanRss

\* one round of the loop over NEWS_SOURCES: fp.ParseURL, continue on an
\* error, else the loop over feed.Items
RssSource(answer) ==
    /\ rssPc = "loop"
    /\ Len(rssFeeds) < MaxFeeds
    /\ rssFeeds' = Append(rssFeeds, answer)
    /\ rssOut' = IF answer.ok THEN AppendSelected(rssOut, answer, rssKeyword, 1) ELSE rssOut
    /\ UNCHANGED <<rssPc, rssKeyword>>
    /\ UNCHANGED otherThanRss

\* the loop is over: return results
RssReturn ==
    /\ rssPc = "loop"
    /\ Len(rssFeeds) = MaxFeeds
    /\ rssPc' = "returned"
    /\ UNCHANGED <<rssKeyword, rssFeeds, rssOut>>
    /\ UNCHANGED otherThanRss

NextRss ==
    \/ \E kw \in RssKeywords : RssCall(kw)
    \/ \E answer \in FeedAnswers : RssSource(answer)
    \/ RssReturn

-----------------------------------------------------------------------------
(* fetchFeedsFromServer and fetchYouTubeFeedsWithCache of the client against *)
(* handleCrawl of the crawl server, with the time both sides wait *)

\* context.WithTimeout(context.Background(), 45*time.Second), and 30 in the
\* second copy of handleCrawl
CrawlDeadline == 45

CrawlDeadlineSecondCopy == 30

CrawlDeadlines == {CrawlDeadline, CrawlDeadlineSecondCopy}

\* ClientTimeout of a client that waits longer than every server deadline
ClientTimeoutLong == CrawlDeadline + CrawlDeadline

\* http.Client{Timeout: 10 * time.Second}
ClientTimeout == 10

\* how long a crawl may take: less than the client waits, as long, longer, and
\* around each deadline of the server
CrawlDurations == {5, 10, 11, 30, 31, 45, 46}

\* the platforms fetchAllFeeds of the client posts to: through the cache, and directly
WaitPlatforms == {"youtube", "twitter"}

WaitKey == CacheKey("YouTube", "go")

\* the result strings of a crawl that succeeds
CrawlOutput == <<"video (link) [Thumbnail: t]">>

\* the FeedResults fetchFeedsFromServer builds from the result strings
FeedsOf(pf, strings) == [i \in 1..Len(strings) |-> [Description |-> strings[i], Source |-> pf]]

\* the crawl of the last POST outlasts the wait of the client
Slow == wDuration > ClientTimeout

InitWait ==
    /\ wNow = 0
    /\ wPlatform = None
    /\ wDuration = 0
    /\ wDeadline = 0
    /\ wClientPc = "idle"
    /\ wClientRes = Nil
    /\ wHit = FALSE
    /\ wCache = EmptyMap
    /\ wCrawlPc = None
    /\ wChan = << >>
    /\ wHandlerPc = None
    /\ wStatus = 0
    /\ wRespResults = Nil
    /\ wSlowStored = FALSE

\* a source goroutine of fetchAllFeeds starts: fetchYouTubeFeedsWithCache
\* returns the cached slice when the key is present; else client.Post sends
\* the request, the handler makes its context and channel and starts crawlFunc
UnitStart(pf, dur, dl) ==
    /\ wClientPc = "idle"
    /\ wPlatform' = pf
    /\ IF pf = "youtube" /\ WaitKey \in DOMAIN wCache
       THEN /\ wClientRes' = wCache[WaitKey]
            /\ wHit' = TRUE
            /\ wClientPc' = "done"
            /\ UNCHANGED <<wNow, wDuration, wDeadline, wCrawlPc, wChan, wHandlerPc,
                           wStatus, wRespResults>>
       ELSE /\ wCrawlPc # "running"
            /\ wHandlerPc # "select"
            /\ wClientRes' = Nil
            /\ wHit' = FALSE
            /\ wClientPc' = "waiting"
            /\ wNow' = 0
            /\ wDuration' = dur
            /\ wDeadline' = dl
            /\ wCrawlPc' = "running"
            /\ wChan' = << >>
            /\ wHandlerPc' = "select"
            /\ wStatus' = 0
            /\ wRespResults' = Nil
    /\ UNCHANGED <<wCache, wSlowStored>>
    /\ UNCHANGED otherThanWait

\* a second passes; no timer and no ready receive is passed over
Tick ==
    /\ wClientPc = "waiting" \/ wCrawlPc = "running" \/ wHandlerPc = "select"
    /\ wClientPc = "waiting" => (wNow < ClientTimeout /\ wStatus = 0)
    /\ wCrawlPc = "running" => wNow < wDuration
    /\ wHandlerPc = "select" => (wNow < wDeadline /\ wChan = << >>)
    /\ wNow' = wNow + 1
    /\ UNCHANGED <<wPlatform, wDuration, wDeadline, wClientPc, wClientRes, wHit, wCache,
                   wCrawlPc, wChan, wHandlerPc, wStatus, wRespResults, wSlowStored>>
    /\ UNCHANGED otherThanWait

\* crawlFunc returns and its goroutine sends the results into the channel
CrawlFuncDone ==
    /\ wCrawlPc = "running"
    /\ wNow = wDuration
    /\ wChan' = <<CrawlOutput>>
    /\ wCrawlPc' = "exited"
    /\ UNCHANGED <<wNow, wPlatform, wDuration, wDeadline, wClientPc, wClientRes, wHit,
                   wCache, wHandlerPc, wStatus, wRespResults, wSlowStored>>
    /\ UNCHANGED otherThanWait

\* case results = <-resultsChan: the handler answers 200 with the results
HandlerReceives ==
    /\ wHandlerPc = "select"
    /\ wChan # << >>
    /\ wRespResults' = Head(wChan)
    /\ wChan' = Tail(wChan)
    /\ wStatus' = StatusOK
    /\ wHandlerPc' = "returned"
    /\ UNCHANGED <<wNow, wPlatform, wDuration, wDeadline, wClientPc, wClientRes, wHit,
                   wCache, wCrawlPc, wSlowStored>>
    /\ UNCHANGED otherThanWait

\* case <-ctx.Done(): the handler answers with the timeout error
HandlerDeadline ==
    /\ wHandlerPc = "select"
    /\ wNow = wDeadline
    /\ wStatus' = StatusGatewayTimeout
    /\ wHandlerPc' = "returned"
    /\ UNCHANGED <<wNow, wPlatform, wDuration, wDeadline, wClientPc, wClientRes, wHit,
                   wCache, wCrawlPc, wChan, wRespResults, wSlowStored>>
    /\ UNCHANGED otherThanWait

\* client.Post returns the response: nil for a status other than 200, else
\* the FeedResults built from the result strings
ClientReceives ==
    /\ wClientPc = "waiting"
    /\ wStatus # 0
    /\ wClientRes' = IF wStatus = StatusOK THEN FeedsOf(wPlatform, wRespResults) ELSE Nil
    /\ wClientPc' = "got"
    /\ UNCHANGED <<wNow, wPlatform, wDuration, wDeadline, wHit, wCache, wCrawlPc, wChan,
                   wHandlerPc, wStatus, wRespResults, wSlowStored>>
    /\ UNCHANGED otherThanWait

\* the Timeout of the http.Client passes: client.Post returns an error and
\* fetchFeedsFromServer returns nil
ClientTimesOut ==
    /\ wClientPc = "waiting"
    /\ wNow = ClientTimeout
    /\ wClientRes' = Nil
    /\ wClientPc' = "got"
    /\ UNCHANGED <<wNow, wPlatform, wDuration, wDeadline, wHit, wCache, wCrawlPc, wChan,
                   wHandlerPc, wStatus, wRespResults, wSlowStored>>
    /\ UNCHANGED otherThanWait

\* fetchYouTubeFeedsWithCache stores what fetchFeedsFromServer returned; the
\* goroutine of an uncached platform has its results
UnitReturns ==
    /\ wClientPc = "got"
    /\ wClientPc' = "done"
    /\ IF wPlatform = "youtube"
       THEN /\ wCache' = MapPut(wCache, WaitKey, wClientRes)
            /\ wSlowStored' = (wSlowStored \/ Slow)
       ELSE UNCHANGED <<wCache, wSlowStored>>
    /\ UNCHANGED <<wNow, wPlatform, wDuration, wDeadline, wClientRes, wHit, wCrawlPc,
                   wChan, wHandlerPc, wStatus, wRespResults>>
    /\ UNCHANGED otherThanWait

\* the search is answered; the next one may come
UnitOver ==
    /\ wClientPc = "done"
    /\ wClientPc' = "idle"
    /\ wClientRes' = Nil
    /\ wHit' = FALSE
    /\ UNCHANGED <<wNow, wPlatform, wDuration, wDeadline, wCache, wCrawlPc, wChan,
                   wHandlerPc, wStatus, wRespResults, wSlowStored>>
    /\ UNCHANGED otherThanWait

NextWait ==
    \/ \E pf \in WaitPlatforms, dur \in CrawlDurations, dl \in CrawlDeadlines : UnitStart(pf, dur, dl)
    \/ Tick
    \/ CrawlFuncDone
    \/ HandlerReceives
    \/ HandlerDeadline
    \/ ClientReceives
    \/ ClientTimesOut
    \/ UnitReturns
    \/ UnitOver

-----------------------------------------------------------------------------

Init == InitAgg /\ InitCrawl /\ InitCalls /\ InitMerge /\ InitConv /\ InitKw /\ InitTop /\ InitPage /\ InitRss /\ InitWait

Next ==
    \/ \E kw \in Keywords : Search(kw)
    \/ Spawn
    \/ \E s \in SourceSet : CacheLoad(s)
    \/ \E s \in SourceSet : AdapterCall(s)
    \/ \E s \in SourceSet : AdapterReturn(s)
    \/ \E s \in SourceSet : CacheStore(s)
    \/ \E s \in SourceSet : Lock(s)
    \/ \E s \in SourceSet : WriteResult(s)
    \/ \E s \in SourceSet : Done(s)
    \/ Wait
    \/ Combine

Spec == Init /\ [][Next]_vars

SpecCrawl == Init /\ [][NextCrawl]_vars

SpecCache == Init /\ [][NextCalls]_vars

SpecMerge == Init /\ [][NextMerge]_vars

SpecConv == Init /\ [][NextConv]_vars

SpecKw == Init /\ [][NextKw]_vars

SpecTop == Init /\ [][NextTop]_vars

SpecPage == Init /\ [][NextPage]_vars

SpecRss == Init /\ [][NextRss]_vars

SpecWait == Init /\ [][NextWait]_vars

-----------------------------------------------------------------------------
(* Claims about fetchAllFeeds, checked under Spec *)

\* C1: when fetchAllFeeds has returned, the map holds under the label of every
\* source whose adapter did not fail exactly the slice that source's goroutine
\* obtained, whichever of the other adapters failed.
C1_FaultIsolation ==
    pcMain = "returned" =>
        \A s \in SourceSet \ failed :
            /\ s \in DOMAIN results
            /\ results[s] = unitResult[s]

\* a returned call in which the News API adapter failed and the YouTube, RSS
\* and Twitter adapters delivered items
C1_Witness ==
    /\ pcMain = "returned"
    /\ failed = {"NewsAPI"}
    /\ results["YouTube"] = Items("YouTube", <<2, 1>>)
    /\ results["RSS"] = Items("RSS", <<1, 2>>)
    /\ results["Twitter"] = Items("Twitter", <<2>>)
    /\ results["NewsAPI"] = Nil

\* every step of the program except the return of an adapter call
StepOtherThanAdapterReturn ==
    \/ \E kw \in Keywords : Search(kw)
    \/ Spawn
    \/ \E s \in SourceSet : CacheLoad(s)
    \/ \E s \in SourceSet : AdapterCall(s)
    \/ \E s \in SourceSet : CacheStore(s)
    \/ \E s \in SourceSet : Lock(s)
    \/ \E s \in SourceSet : WriteResult(s)
    \/ \E s \in SourceSet : Done(s)
    \/ Wait
    \/ Combine

\* C2: an adapter call that never completes cannot keep fetchAllFeeds from
\* returning: as long as the call has not returned, the program can take a
\* step that is not the return of an adapter (the expiry of a deadline would
\* be such a step).  fetchAllFeeds starts no timer and fetchNewsFeeds uses
\* http.Get on the default client, which has no timeout, so with a goroutine
\* inside its adapter wg.Wait() is all that is left.
C2_ReturnsWhateverAdaptersDo ==
    pcMain \in {"spawn", "wait", "combine"} => ENABLED StepOtherThanAdapterReturn

\* C3: when wg.Wait() has returned, every source goroutine has written its
\* entry and ended: the map has an entry for every source label and no
\* goroutine is left that could still write.
C3_JoinBeforeReturn ==
    pcMain \in {"combine", "returned"} =>
        \A s \in SourceSet :
            /\ pc[s] = "done"
            /\ s \in DOMAIN results

\* a returned call with all six entries, one of them from a failed adapter
C3_Witness ==
    /\ pcMain = "returned"
    /\ SourceSet \subseteq DOMAIN results
    /\ wg = 0
    /\ "YouTube" \in failed

\* C8: in a second fetchAllFeeds call with the same keyword no source's
\* adapter is invoked again.
C8_NoAdapterInvokedAgain ==
    \A s \in invokedNow : <<s, keyword>> \notin invokedBefore

-----------------------------------------------------------------------------
(* Claims about handleCrawl, checked under SpecCrawl *)

\* C4: when the select takes the timeout case, the response carries as its
\* results what crawlFunc had produced up to then (possibly nothing), and the
\* outcome is not an error.
C4_PartialOutputOnExpiry ==
    branch = "timeout" =>
        /\ respBody = "json"
        /\ respResults = collectedAtExpiry
        /\ respStatus = StatusOK

\* C5: a POST request with a decodable body is answered with a success
\* status, also when the deadline expired before crawlFunc returned.
C5_WellFormedRequestSucceeds ==
    (hPc = "returned" /\ hMethod = "POST" /\ hBodyOk) => respStatus = StatusOK

-----------------------------------------------------------------------------
(* Claims about the cached fetch, checked under SpecCache *)

\* C7: of two consecutive calls of a cached fetch for the same source and
\* keyword that no other call for that key overlaps, the second returns the
\* slice the first returned and does not invoke the adapter, and when the
\* first found the cache cold the adapter has been invoked exactly once.
C7_SecondCallIsCacheHit ==
    \A c \in Callers :
        (callPc[c] = "returned" /\ alone[c] /\ pred[c].known) =>
            /\ callRet[c] = pred[c].ret
            /\ invocations[c] = 0
            /\ pred[c].cold => adapterCalls[KeyOf(c)] = 1

\* a YouTube call that returns the two videos its predecessor fetched on a cold cache
C7_Witness ==
    \E c \in Callers :
        /\ callPc[c] = "returned"
        /\ callSrc[c] = "YouTube"
        /\ alone[c]
        /\ pred[c].known
        /\ pred[c].cold
        /\ pred[c].ret = Items("YouTube", <<2, 1>>)
        /\ callRet[c] = Items("YouTube", <<2, 1>>)
        /\ invocations[c] = 0

-----------------------------------------------------------------------------
(* Claims about fetchCombinedNewsFeeds, checked under SpecMerge *)

\* C10: the slice fetchCombinedNewsFeeds returns is ordered non-increasing by
\* PublishedTime (ties allowed), and no item with the zero time precedes an
\* item with a parsed time.
C10_MergeSorted ==
    mPc = "returned" =>
        /\ \A i \in 1..(Len(combined) - 1) : ~After(combined[i + 1], combined[i])
        /\ \A i, j \in 1..Len(combined) :
              (i < j /\ combined[i].PublishedTime = 0) => combined[j].PublishedTime = 0

\* a merge of four items, appended out of order, with a tie and a zero time
C10_Witness ==
    /\ mPc = "returned"
    /\ appended = Items("RSS", <<0, 1>>) \o Items("NewsAPI", <<2, 1>>)
    /\ Len(combined) = 4
    /\ combined[1].PublishedTime = 2
    /\ combined[4].PublishedTime = 0

\* how often the item x occurs in s
Count(s, x) == Cardinality({i \in DOMAIN s : s[i] = x})

ItemsOf(s) == {s[i] : i \in DOMAIN s}

\* C13: fetchCombinedNewsFeeds returns min(n, 100) of the n items its sources
\* delivered, and no item it drops is newer than an item it keeps.
C13_CutDropsOldestTail ==
    mPc = "returned" =>
        /\ Len(combined) = IF Len(appended) > 100 THEN 100 ELSE Len(appended)
        /\ \A x \in ItemsOf(combined) : Count(combined, x) <= Count(appended, x)
        /\ \A x \in ItemsOf(appended) :
              Count(combined, x) < Count(appended, x) =>
                  \A y \in ItemsOf(combined) : ~After(x, y)

\* 99 feed items and two articles were delivered, the older article is dropped
C13_Witness ==
    /\ mPc = "returned"
    /\ Len(appended) = 101
    /\ Len(combined) = 100
    /\ Count(appended, FeedResult("NewsAPI", 1)) = 1
    /\ Count(combined, FeedResult("NewsAPI", 1)) = 0
    /\ Count(combined, FeedResult("NewsAPI", 2)) = 1
    /\ Count(combined, FeedResult("RSS", LongTime)) = 99

\* what fetchCombinedNewsFeeds may return when allResults holds the sequence s
\* at the time wg.Wait() returns
MergeOutcomes(s) ==
    {IF Len(x) > MaxCombined THEN SubSeqTo(x, MaxCombined) ELSE x : x \in SortSliceOutcomes(s)}

\* C14: for fixed outputs of the two sources, the sequence
\* fetchCombinedNewsFeeds returns does not depend on which goroutine appended
\* first: it is what the call returns with the RSS items appended first and
\* also what it returns with the News API items appended first.
C14_AppendOrderIrrelevant ==
    mPc = "returned" =>
        /\ combined \in MergeOutcomes(mUnitRes["RSS"] \o mUnitRes["NewsAPI"])
        /\ combined \in MergeOutcomes(mUnitRes["NewsAPI"] \o mUnitRes["RSS"])

-----------------------------------------------------------------------------
(* Claims about the order of the sequences fetchAllFeeds returns, checked under Spec *)

\* a sequence is ordered most recent first: no item is After the one before
\* it, so the zero times of unparsed dates come last
SortedRecentFirst(s) == \A i \in 1..(Len(s) - 1) : ~After(s[i + 1], s[i])

\* C11: in the map fetchAllFeeds returns, every per-source sequence and the
\* combined "News" sequence is ordered non-increasing by published time, with
\* unknown timestamps last.
C11_EverySequenceSorted ==
    pcMain = "returned" => \A k \in DOMAIN results : SortedRecentFirst(results[k])

-----------------------------------------------------------------------------
(* Claims about the published time of an item, checked under SpecConv *)

\* C12: for every adapter that produces FeedResult items, an item whose
\* published string is absent or does not parse carries the unknown (zero)
\* time, and every item of the same output whose string parsed is After it.
C12_UnparsedIsUnknown ==
    convPc = "loop" =>
        \A i \in 1..Len(convOut) :
            ParseTime(convRaw[i]).err =>
                /\ convOut[i].PublishedTime = 0
                /\ \A j \in 1..Len(convOut) :
                      ~ParseTime(convRaw[j]).err => After(convOut[j], convOut[i])

-----------------------------------------------------------------------------
(* Claims about failing adapters and malformed requests, checked under SpecCrawl *)

\* C15: when an adapter fails (its upstream call, login, navigation or parse
\* step), the sequence it hands on holds no items.
C15_FailureYieldsEmpty ==
    (crawlPc = "exited" /\ crawlFailed) => Len(crawlReturned) = 0

\* C16: handleCrawl answers 400 to a POST whose body does not decode and 405
\* to a method other than POST and OPTIONS, and in both cases, as for OPTIONS,
\* it neither starts crawlFunc nor arms the deadline.
C16_MalformedRequestRejected ==
    hPc = "returned" =>
        /\ (hMethod = "POST" /\ ~hBodyOk) => respStatus = StatusBadRequest
        /\ hMethod \notin {"POST", "OPTIONS"} => respStatus = StatusMethodNotAllowed
        /\ (hMethod # "POST" \/ ~hBodyOk) =>
              /\ crawlPc = None
              /\ ctxState = None
              /\ resultsChan = << >>

\* a POST with an undecodable body was answered 400 and nothing was started
C16_Witness ==
    /\ hPc = "returned"
    /\ hMethod = "POST"
    /\ ~hBodyOk
    /\ respStatus = StatusBadRequest
    /\ respBody = "error"
    /\ crawlPc = None
    /\ ctxState = None

-----------------------------------------------------------------------------
(* Claims about the keyword counter, checked under SpecKw *)

C18_MapAccessUnderLock ==
    /\ \A r \in Requests :
          reqPc[r] \in {"read", "write", "save", "iterating"} => searchedKeywordsLock = r
    /\ \A r, q \in Requests :
          ~(r # q /\ reqPc[r] = "iterating" /\ reqPc[q] = "write")

C24_LockNotHeldDuringSave ==
    \A r \in Requests : reqPc[r] = "save" => searchedKeywordsLock # r

-----------------------------------------------------------------------------
(* Claims about sortKeywordsByCount, checked under SpecTop *)

\* C19: sortKeywordsByCount returns every keyword of the counter map exactly
\* once, and of two keywords the one it returns first has a count at least
\* that of the other; after three increments of "go" and one of "rust" it
\* returns "go" before "rust".
C19_MostSearchedFirst ==
    topCalls > 0 =>
        /\ Len(topOut) = Cardinality(DOMAIN topMap)
        /\ {topOut[i] : i \in 1..Len(topOut)} = DOMAIN topMap
        /\ \A i, j \in 1..Len(topOut) : i < j => topMap[topOut[i]] >= topMap[topOut[j]]
        /\ topMap = MapPut(MapPut(EmptyMap, "go", 3), "rust", 1) => topOut = <<"go", "rust">>

\* the map of three keywords with counts 3, 2 and 1 was sorted
C19_Witness ==
    /\ topCalls > 0
    /\ topMap = MapPut(MapPut(MapPut(EmptyMap, "rust", 1), "zig", 2), "go", 3)
    /\ topOut = <<"go", "zig", "rust">>

\* C20: two calls of sortKeywordsByCount on the same counter map return the
\* same sequence, also when keywords have equal counts.
C20_SameMapSameOrder ==
    topCalls = 2 => topOut = topPrev

\* a step of the goroutine started by handleCrawl
CrawlGoroutineStep == CrawlAppend \/ CrawlFuncReturn \/ CrawlFuncFail

\* C23: the goroutine of crawlFunc always has a next step while it has not
\* exited, also after the handler has returned on the deadline, and when it
\* has exited after such a return its value sits in the channel, unreceived.
C23_AbandonedCrawlRunsToEnd ==
    /\ crawlPc = "running" => ENABLED CrawlGoroutineStep
    /\ (branch = "timeout" /\ crawlPc = "exited") =>
           /\ hPc = "returned"
           /\ resultsChan = <<crawlReturned>>

\* the handler returned on the deadline before crawlFunc had collected
\* anything; the goroutine went on, collected both results, sent them and exited
C23_Witness ==
    /\ branch = "timeout"
    /\ hPc = "returned"
    /\ collectedAtExpiry = << >>
    /\ crawlPc = "exited"
    /\ Len(crawlTarget) = 2
    /\ crawlReturned = crawlTarget
    /\ resultsChan = <<crawlTarget>>

\* C25: at most one source goroutine is between mu.Lock() and mu.Unlock(),
\* where it writes its entry of the result map, and it is the holder of mu;
\* fetchAllFeeds is past wg.Wait(), where it writes the "News" entry without
\* the mutex, only when every source goroutine is done.
C25_MapWritesExclusive ==
    /\ \A s, t \in SourceSet : (pc[s] = "locked" /\ pc[t] = "locked") => s = t
    /\ \A s \in SourceSet : pc[s] = "locked" => mu = s
    /\ pcMain = "combine" => \A s \in SourceSet : pc[s] = "done"

\* one goroutine is inside its write while another waits at mu.Lock()
C25_Witness ==
    \E s, t \in SourceSet :
        /\ pc[s] = "locked"
        /\ mu = s
        /\ pc[t] = "got"

\* C27: a call that finds its key absent invokes the adapter whether or not
\* another call for the key is under way, and a call that stores leaves its
\* own result as the entry whether or not the key has an entry by then: two
\* overlapping calls on a cold key both invoke the adapter and the entry is
\* the result of the later store.
C27_LookupAndStoreNotAtomic ==
    [][\A c \in Callers :
          /\ (callPc[c] = "load" /\ callPc'[c] # "load" /\ KeyOf(c) \notin DOMAIN cache) =>
                 /\ callPc'[c] = "calling"
                 /\ adapterCalls'[KeyOf(c)] = adapterCalls[KeyOf(c)] + 1
          /\ (callPc[c] = "store" /\ callPc'[c] # "store") =>
                 /\ KeyOf(c) \in DOMAIN cache'
                 /\ cache'[KeyOf(c)] = callRes[c]]_vars

\* two calls for "go" overlapped on the cold News key and both invoked the
\* adapter; one has stored its result, the other is about to store another
C27_Witness ==
    \E c \in Callers :
        /\ callPc[c] = "store"
        /\ ~alone[c]
        /\ adapterCalls[KeyOf(c)] = 2
        /\ KeyOf(c) \in DOMAIN cache
        /\ cache[KeyOf(c)] # callRes[c]

-----------------------------------------------------------------------------
(* Claims about the pagination handler, checked under SpecPage *)

-----------------------------------------------------------------------------
(* Claims about fetchRSSFeeds, checked under SpecRss *)

\* kw occurs in text when upper and lower case letters count as the same
OccursIgnoringCase(text, kw) ==
    \E o \in 0..(Len(text) - Len(kw)) :
        \A i \in 1..Len(kw) : Lower(text[o + i]) = Lower(kw[i])

\* the items of one feed that mention the keyword, in feed order
Mentioning(feed, kw) ==
    SelectSeq(feed.items,
              LAMBDA item : \/ OccursIgnoringCase(item.Title, kw)
                            \/ OccursIgnoringCase(item.Description, kw))

\* the results for the feeds from the i-th on: nothing for a feed that
\* failed, the mentioning items of a feed that was parsed
RECURSIVE MentioningOfAll(_, _, _)
MentioningOfAll(feeds, kw, i) ==
    IF i > Len(feeds)
    THEN << >>
    ELSE (IF feeds[i].ok
          THEN [n \in 1..Len(Mentioning(feeds[i], kw)) |->
                    RssResult(feeds[i], Mentioning(feeds[i], kw)[n])]
          ELSE << >>)
         \o MentioningOfAll(feeds, kw, i + 1)

\* every item of every parsed feed
RECURSIVE EveryItem(_, _)
EveryItem(feeds, i) ==
    IF i > Len(feeds)
    THEN << >>
    ELSE [n \in 1..Len(feeds[i].items) |-> RssResult(feeds[i], feeds[i].items[n])]
         \o EveryItem(feeds, i + 1)

\* C26: fetchRSSFeeds returns, feed after feed and in feed order, the items
\* of the parsed feeds whose title or description contains the keyword
\* whatever the case of the letters; a failed feed adds nothing and removes
\* nothing; with the empty keyword it returns every item of the parsed feeds.
C26_RssKeepsMentioningItems ==
    rssPc = "returned" =>
        /\ rssOut = MentioningOfAll(rssFeeds, rssKeyword, 1)
        /\ rssKeyword = << >> => rssOut = EveryItem(rssFeeds, 1)

\* the first feed failed, the second was parsed; both its items mention "GO"
\* in another case (one in the description, one in the title) and are returned
C26_Witness ==
    /\ rssPc = "returned"
    /\ rssKeyword = <<"G", "O">>
    /\ ~rssFeeds[1].ok
    /\ rssFeeds[2].ok
    /\ Len(rssFeeds[2].items) = 2
    /\ Len(rssOut) = 2
    /\ rssOut[1].Title = <<"x">>
    /\ rssOut[2].Title = <<"G", "o">>

-----------------------------------------------------------------------------
(* Claims about the waits of the client and of the crawl server, checked *)
(* under SpecWait *)

-----------------------------------------------------------------------------
(* Claims about the termination of fetchAllFeeds, checked under Spec *)

\* the source goroutines that were started and have not run their wg.Done()
Unfinished == {s \in SourceSet : pc[s] \notin {"none", "done"}}

\* fetchAllFeeds has been called and has not returned
InCall == pcMain \in {"spawn", "wait", "combine"}

\* a step of fetchAllFeeds or of one of its goroutines
CallStep ==
    \/ Spawn
    \/ \E s \in SourceSet : CacheLoad(s)
    \/ \E s \in SourceSet : AdapterCall(s)
    \/ \E s \in SourceSet : AdapterReturn(s)
    \/ \E s \in SourceSet : CacheStore(s)
    \/ \E s \in SourceSet : Lock(s)
    \/ \E s \in SourceSet : WriteResult(s)
    \/ \E s \in SourceSet : Done(s)
    \/ Wait
    \/ Combine

\* the statements a goroutine at the position p has before it, at most
StepsLeft(p) ==
    CASE p = "none"    -> 7
      [] p = "run"     -> 6
      [] p = "calling" -> 5
      [] p = "store"   -> 4
      [] p = "got"     -> 3
      [] p = "locked"  -> 2
      [] p = "written" -> 1
      [] OTHER         -> 0

MainStepsLeft ==
    CASE pcMain = "spawn"   -> 3
      [] pcMain = "wait"    -> 2
      [] pcMain = "combine" -> 1
      [] OTHER              -> 0

\* C30: the counter of the wait group always is the number of source
\* goroutines started and not finished, so it never is negative; while
\* fetchAllFeeds has not returned, it or one of its goroutines can take a
\* step, and every step leaves fewer statements to run: with a scheduler that
\* runs what can run and adapters that return, the counter reaches zero and
\* fetchAllFeeds returns.
C30_FetchAllFeedsTerminates ==
    /\ [](/\ wg = Cardinality(Unfinished)
          /\ wg >= 0
          /\ InCall => ENABLED CallStep)
    /\ [][InCall =>
             \/ /\ MainStepsLeft' < MainStepsLeft
                /\ \A s \in SourceSet : StepsLeft(pc'[s]) <= StepsLeft(pc[s])
             \/ /\ pcMain' = pcMain
                /\ \E s \in SourceSet :
                      /\ StepsLeft(pc'[s]) < StepsLeft(pc[s])
                      /\ \A t \in SourceSet \ {s} : pc'[t] = pc[t]]_vars

\* fetchAllFeeds waits while four goroutines are done and two still run
C30_Witness ==
    /\ pcMain = "wait"
    /\ wg = 2
    /\ Cardinality({s \in SourceSet : pc[s] = "done"}) = 4
    /\ Cardinality(Unfinished) = 2

====
